---- MODULE Spec2Model ----
(***************************************************************************)
(* ESB Smart Meter integration: the circuit breaker                        *)
(* (custom_components/esb_smart_meter/circuit_breaker.py) and the fetch    *)
(* entry point that is gated by it                                         *)
(* (custom_components/esb_smart_meter/api_client.py, ESBDataApi.fetch).    *)
(*                                                                         *)
(* Time is wall-clock time in seconds since local midnight of the day the  *)
(* breaker was constructed.  The clock only moves in steps of Tick         *)
(* seconds; every synchronous block of the code is one atomic action and   *)
(* the clock may move between any two of them.                             *)
(*                                                                         *)
(* The coordinator (coordinator.py), the download step and the session     *)
(* store (session_manager.py) are modelled next to them.                   *)
(*                                                                         *)
(* The specifications share the variables:                                 *)
(*   SpecCB    the CircuitBreaker class driven method by method, the way   *)
(*             tests/test_circuit_breaker.py drives it;                    *)
(*   Spec      ESBDataApi.fetch() called again and again by one caller,    *)
(*             each call starting after the previous one has ended         *)
(*             (returned, raised or was cancelled);                        *)
(*   SpecConc  ESBDataApi.fetch() called by two coroutines that may        *)
(*             overlap at the suspension points of the call;               *)
(*   SpecCoord _async_update_data() driven with a stubbed fetch(), the way *)
(*             tests/test_coordinator.py drives it;                        *)
(*   SpecDownload  the size checks of __fetch_data on one response;        *)
(*   SpecSession   SessionManager on one session file;                     *)
(*   SpecSessionIO SessionManager on a session file whose disk may fail;   *)
(*   SpecCached    fetch() called while a valid session file is on disk;   *)
(*   SpecData      ESBData built from parsed CSV rows and read through its *)
(*             six usage properties;                                       *)
(*   SpecUnload    async_setup_entry / async_unload_entry on two entries.  *)
(*   SpecManual    save_manual_cookies() on one session file;              *)
(*   SpecCache     ESBCachingApi.fetch() (cache.py) called by overlapping  *)
(*             tasks;                                                      *)
(*   SpecRetry     the retry loop of the legacy ESBDataApi.fetch()         *)
(*             (sensor.py);                                                *)
(*   SpecMeters    two SessionManagers, one per MPRN, on one directory.    *)
(* In Spec and SpecConc every fetch() is awaited by _async_update_data().  *)
(***************************************************************************)
EXTENDS Integers, FiniteSets, Sequences, TLC

\* ------------------------------------------------------------------ bounds

\* clock granularity, in seconds
Tick == 7200
\* the clock stops after MaxTicks steps (SpecCB, Spec)
MaxTicks == 14
\* the clock stops after MaxTicksConc steps (SpecConc)
MaxTicksConc == 1
\* SpecCB: record_failure() is not called once failure_count reached this
MaxFailures == 7
\* SpecCB: record_*() is not called once daily_attempts reached this
MaxAttempts == 4
\* Spec, SpecConc: at most this many of one day's fetch() calls are cancelled
MaxCancels == 1
\* SpecCoord: the stubbed fetch() raises no CAPTCHA once this many
\* notifications were sent
MaxNotifications == 3
\* SpecDownload: sizes up to this many bytes below and above the limit are tried
MaxSlack == 2
\* SpecSession: the clock stops after MaxTicksSession steps
MaxTicksSession == 2
\* SpecData: ESBData is given at most MaxRows rows
MaxRows == 2
\* SpecData: the clock stops MaxTicksData steps after DataStart
MaxTicksData == 1
\* SpecManual: a cookie string has at most MaxParts parts between semicolons
MaxParts == 2
\* SpecCache: the underlying fetch() is called at most MaxFetches times
MaxFetches == 3

\* ------------------------------------------------------- program constants

CIRCUIT_BREAKER_FAILURES == 3
CIRCUIT_BREAKER_TIMEOUT == 1800
CIRCUIT_BREAKER_MAX_TIMEOUT == 43200
MAX_AUTH_ATTEMPTS_PER_DAY == 3
\* MAX_CSV_SIZE_MB, in MiB
MAX_CSV_SIZE_MB == 10
MAX_DATA_AGE_DAYS == 90
\* DEFAULT_SCAN_INTERVAL = timedelta(hours=24), in hours
DEFAULT_SCAN_INTERVAL == 24
\* SESSION_EXPIRY_HOURS, in hours
SESSION_EXPIRY_HOURS == 336
SESSION_FILE_NAME == "session_cache"
DEFAULT_MAX_RETRIES == 3
\* DEFAULT_RETRY_WAIT, in seconds
DEFAULT_RETRY_WAIT == 1800

\* Optional[datetime] = None
None == -1

\* the two coroutines that may call fetch()
Tasks == {"t1", "t2"}
\* the single caller of Spec
Caller == "t1"

\* the exceptions a network call of fetch() can end in
NetworkErrors == {"http_4xx", "http_429", "http_5xx", "client_error", "timeout"}
\* requests whose response is parsed or validated, so that a ValueError can follow
ParsedRequests == {1, 3, 7, 8}
\* __login issues requests 1 to 7, __fetch_data issues request 8
DownloadRequest == 8
\* request 3 is the GET of the 'confirmed' page, whose text is scanned for CAPTCHA
ConfirmRequest == 3
\* the substrings __login looks for in the text of the 'confirmed' page
CaptchaMarkers == {"g-recaptcha-response", "captcha.html", "confirm_not_a_robot"}
\* what a fetch() awaited by the coordinator can give it: an ESBData with or
\* without rows, None (a stub only), or an exception
FetchResults ==
    {"snapshot", "snapshot_empty", "none", "captcha_required", "cancelled",
     "breaker_open", "value_error", "key_error", "other"} \cup NetworkErrors
\* timedelta(days=7), in hours
WeeklyInterval == 7 * 24
\* the update intervals __init__.py constructs the coordinator with, in hours
ConfiguredIntervals == {12, DEFAULT_SCAN_INTERVAL}
\* the meter the SessionManager was constructed for, and another one
OwnMprn == "mprn_own"
OtherMprn == "mprn_other"

VARIABLES
    now,        \* datetime.now()
    cb,         \* the CircuitBreaker object's fields
    op,         \* SpecCB: the method called last
    ret,        \* SpecCB: what the last can_attempt() returned
    calls,      \* SpecCB: parity of the number of method calls
    consec,     \* history: record_failure() calls since the last record_success()
    pc,         \* per task: where its fetch() call is suspended
    req,        \* per task: requests issued so far by its fetch() call in progress
    outcome,    \* per task: how its last fetch() call ended
    gate_day,   \* history: the calendar day of the last call that passed the gate
    gate_passes, \* history: the calls that passed the gate on gate_day
    gate_cancelled, \* history: those of them that were cancelled
    raised,     \* per task, history: the exception raised inside its last fetch()
    markers,    \* per task, history: CAPTCHA markers in the step-3 response it got
    coord,      \* the ESBDataUpdateCoordinator object and what its last update gave
    fetched,    \* SpecCoord: what the stubbed fetch() gave last and the time before
    response,   \* SpecDownload: the response to request 8
    download,   \* SpecDownload: what __fetch_data made of it
    session_file, \* SpecSession: the session file on disk
    loaded,     \* SpecSession: what the last load_session() returned
    saved,      \* history: what the last save_session() wrote, if still on disk
    disk,       \* history: how the disk answered the last SessionManager call
    propagated, \* history: the exception that left the last SessionManager call
    cookie_string, \* history: the argument of the last save_manual_cookies()
    req_ua,     \* per task: the User-Agent header of its request in flight
    token,      \* per task: the download token its call in progress obtained
    shape,      \* per task, history: the response shape its last call failed on
    rows,       \* SpecData: the rows handed to ESBData(data=...)
    esb,        \* SpecData: what the constructor made of them
    usage,      \* SpecData: the six aggregates as read last
    entry_data, \* SpecUnload: per config entry, its hass.data[DOMAIN] item
    session_state, \* SpecUnload: per config entry, its aiohttp session
    unloaded,   \* SpecUnload: the last async_unload_entry() call
    setup,      \* SpecUnload: the last async_setup_entry() call
    cache,      \* SpecCache: the ESBCachingApi object's fields and its lock
    ctask,      \* SpecCache: per task, where its ESBCachingApi.fetch() call is
    fetches,    \* SpecCache, history: calls of the underlying fetch() so far
    retry,      \* SpecRetry: the retrying fetch() of sensor.py, its loop and result
    files,      \* SpecMeters: the storage directory, file name to content
    managed     \* SpecMeters: the manager called last and what it returned

vars == <<now, cb, op, ret, calls, consec, pc, req, outcome, gate_day, gate_passes,
          gate_cancelled, raised, markers, coord, fetched, response, download,
          session_file, loaded, saved, disk, propagated, cookie_string, req_ua, token,
          shape, rows, esb, usage, entry_data, session_state, unloaded, setup,
          cache, ctask,
          fetches, retry, files, managed>>
unitVars == <<op, ret, calls>>
fetchVars == <<pc, req, outcome, gate_day, gate_passes, gate_cancelled>>
captchaVars == <<raised, markers>>
coordVars == <<coord, fetched>>
downloadVars == <<response, download>>
sessionVars == <<session_file, loaded, saved, disk, propagated, cookie_string>>
loginVars == <<req_ua, token, shape>>
dataVars == <<rows, esb, usage>>
unloadVars == <<entry_data, session_state, unloaded, setup>>
cacheVars == <<cache, ctask, fetches>>
retryVars == <<retry>>
meterVars == <<files, managed>>

\* ---------------------------------------------------------------- helpers

Min(a, b) == IF a <= b THEN a ELSE b

RECURSIVE Pow2(_)
Pow2(k) == IF k <= 0 THEN 1 ELSE 2 * Pow2(k - 1)

\* datetime.date(): the calendar day a time falls on
Date(t) == t \div (24 * 3600)

\* ------------------------------------------------------- CircuitBreaker

\* CircuitBreaker.__init__ (hass and mprn are never passed: both are None)
NewCircuitBreaker ==
    [failure_count |-> 0,
     last_failure_time |-> None,
     daily_attempts |-> 0,
     daily_attempts_reset_time |-> None,
     is_open |-> FALSE,
     notification_sent |-> FALSE]

\* backoff_time with the cap forgotten
backoff_time_uncapped(n) ==
    IF n = 0 THEN CIRCUIT_BREAKER_TIMEOUT \div 2
    ELSE CIRCUIT_BREAKER_TIMEOUT * Pow2(n - 1)

\* min(CIRCUIT_BREAKER_TIMEOUT * (2 ** (failure_count - 1)), CIRCUIT_BREAKER_MAX_TIMEOUT)
\* (2 ** -1 is 0.5 in Python)
backoff_time(n) ==
    IF n = 0 THEN Min(CIRCUIT_BREAKER_TIMEOUT \div 2, CIRCUIT_BREAKER_MAX_TIMEOUT)
    ELSE Min(CIRCUIT_BREAKER_TIMEOUT * Pow2(n - 1), CIRCUIT_BREAKER_MAX_TIMEOUT)

\* daily_reset comparing the dates with >= : every check resets the counter
daily_reset_every_check(b, t) ==
    IF b.daily_attempts_reset_time = None \/ Date(t) >= Date(b.daily_attempts_reset_time)
    THEN [b EXCEPT !.daily_attempts = 0, !.daily_attempts_reset_time = t]
    ELSE b

\* can_attempt, first part: reset the daily counter if it is a new day
daily_reset(b, t) ==
    IF b.daily_attempts_reset_time = None \/ Date(t) > Date(b.daily_attempts_reset_time)
    THEN [b EXCEPT !.daily_attempts = 0, !.daily_attempts_reset_time = t]
    ELSE b

\* in_backoff with a window that never elapses
in_backoff_forever(b, t) ==
    /\ b.is_open
    /\ b.last_failure_time # None

\* can_attempt, second part: the backoff window of an open breaker has not elapsed
in_backoff(b, t) ==
    /\ b.is_open
    /\ b.last_failure_time # None
    /\ t - b.last_failure_time < backoff_time(b.failure_count)

\* can_attempt that grants the half-open attempt and leaves is_open set
can_attempt_stays_open(b, t) ==
    LET b1 == daily_reset(b, t) IN
    IF b1.daily_attempts >= MAX_AUTH_ATTEMPTS_PER_DAY
    THEN [cb |-> b1, ok |-> FALSE]
    ELSE IF b1.is_open /\ b1.last_failure_time # None
         THEN IF in_backoff(b1, t)
              THEN [cb |-> b1, ok |-> FALSE]
              ELSE [cb |-> b1, ok |-> TRUE]
         ELSE [cb |-> b1, ok |-> TRUE]

\* CircuitBreaker.can_attempt at time t: the object afterwards and the value returned
can_attempt(b, t) ==
    LET b1 == daily_reset(b, t) IN
    IF b1.daily_attempts >= MAX_AUTH_ATTEMPTS_PER_DAY
    THEN [cb |-> b1, ok |-> FALSE]
    ELSE IF b1.is_open /\ b1.last_failure_time # None
         THEN IF in_backoff(b1, t)
              THEN [cb |-> b1, ok |-> FALSE]
              ELSE [cb |-> [b1 EXCEPT !.is_open = FALSE], ok |-> TRUE]
         ELSE [cb |-> b1, ok |-> TRUE]

\* record_success that does not count the attempt
record_success_uncounted(b) ==
    [b EXCEPT !.failure_count = 0,
              !.is_open = FALSE,
              !.notification_sent = FALSE]

\* record_success that leaves the breaker open
record_success_keeps_open(b) ==
    [b EXCEPT !.failure_count = 0,
              !.daily_attempts = @ + 1,
              !.notification_sent = FALSE]

\* record_success that leaves failure_count alone
record_success_keeps_count(b) ==
    [b EXCEPT !.is_open = FALSE,
              !.daily_attempts = @ + 1,
              !.notification_sent = FALSE]

\* CircuitBreaker.record_success
record_success(b) ==
    [b EXCEPT !.failure_count = 0,
              !.is_open = FALSE,
              !.daily_attempts = @ + 1,
              !.notification_sent = FALSE]

\* record_failure that opens the breaker one failure late (> for >=)
record_failure_opens_late(b, t) ==
    LET n == b.failure_count + 1 IN
    [b EXCEPT !.failure_count = n,
              !.last_failure_time = t,
              !.daily_attempts = @ + 1,
              !.is_open = IF n > CIRCUIT_BREAKER_FAILURES THEN TRUE ELSE @]

\* record_failure that stamps last_failure_time only on the first failure
record_failure_unstamped(b, t) ==
    LET n == b.failure_count + 1 IN
    [b EXCEPT !.failure_count = n,
              !.last_failure_time = IF @ = None THEN t ELSE @,
              !.daily_attempts = @ + 1,
              !.is_open = IF n >= CIRCUIT_BREAKER_FAILURES THEN TRUE ELSE @]

\* CircuitBreaker.record_failure at time t (self._hass is None: no notification)
record_failure(b, t) ==
    LET n == b.failure_count + 1 IN
    [b EXCEPT !.failure_count = n,
              !.last_failure_time = t,
              !.daily_attempts = @ + 1,
              !.is_open = IF n >= CIRCUIT_BREAKER_FAILURES THEN TRUE ELSE @]

\* ---------------------------------------- ESBDataApi: raising and handling

\* __login, request 3: the exception raised when the text of the 'confirmed'
\* page holds a CAPTCHA marker: `raise ValueError("ESB Networks requires CAPTCHA
\* verification. ...")`
captcha_error == "value_error"

\* fetch() whose last clause logs the unexpected exception and returns None
fetch_except_swallows_unexpected(e) ==
    CASE e = "value_error" -> [record |-> TRUE, raises |-> e]
      [] e \in {"http_4xx", "http_429", "http_5xx"} -> [record |-> TRUE, raises |-> e]
      [] e \in {"client_error", "timeout"} -> [record |-> TRUE, raises |-> e]
      [] OTHER -> [record |-> FALSE, raises |-> "none"]

\* fetch(): the except clause that catches exception e (ValueError,
\* aiohttp.ClientResponseError, aiohttp.ClientError or asyncio.TimeoutError,
\* Exception), whether it calls record_failure() and what it raises
fetch_except(e) ==
    CASE e = "value_error" -> [record |-> TRUE, raises |-> e]
      [] e \in {"http_4xx", "http_429", "http_5xx"} -> [record |-> TRUE, raises |-> e]
      [] e \in {"client_error", "timeout"} -> [record |-> TRUE, raises |-> e]
      [] OTHER -> [record |-> TRUE, raises |-> e]

\* ------------------------------------------------- __login: the responses

\* the login requests whose response is parsed
LoginParsed == ParsedRequests \ {DownloadRequest}

\* what the response to request k can look like when it arrives with a
\* success status and, at request 3, without CAPTCHA marker.  Request 1: the
\* page has no `var SETTINGS = ...;`, SETTINGS is no JSON, is JSON null or a
\* number, or is an object without csrf or without transId.  Request 3: no
\* form with id "auto", an input (state, client_info, code) missing, an
\* input's value or the form's action missing or empty.  Request 7: the body
\* is no JSON, is a JSON array or null, is an object without "token" or with
\* an empty one.  (A token response that is not served as JSON makes
\* response.json() raise aiohttp.ContentTypeError, one of the network errors.)
Shapes(k) ==
    CASE k = 1 -> {"ok", "no_settings", "settings_bad_json", "settings_null",
                   "settings_no_csrf", "settings_no_trans_id"}
      [] k = ConfirmRequest -> {"ok", "no_form", "input_missing", "value_empty"}
      [] k = 7 -> {"ok", "token_bad_json", "token_not_object", "no_token", "empty_token"}
      [] OTHER -> {"ok"}

\* token_data.get("token") for the shapes of the token response that are
\* JSON objects: the token, None or the empty string
token_of(s) ==
    CASE s = "ok" -> "tok_a"
      [] s = "empty_token" -> ""
      [] OTHER -> "none"

\* a token check that lets everything through
token_accepted_always(tok) == TRUE

\* `if not download_token: raise ValueError(...)`, in __login after request 7
\* and again in fetch() before __fetch_data is called
token_accepted(tok) == tok \notin {"none", ""}

\* what __login makes of the response of shape s to request k: "ok", or the
\* exception that leaves __login.  json.JSONDecodeError becomes ValueError;
\* `"csrf" not in settings` raises TypeError when settings is None or a number
\* and token_data.get raises AttributeError when token_data is a list or
\* None: neither is converted ("other")
login_parse(k, s) ==
    CASE s = "ok" -> IF k = 7 /\ ~token_accepted(token_of(s)) THEN "value_error" ELSE "ok"
      [] s \in {"settings_null", "token_not_object"} -> "other"
      [] s \in {"no_token", "empty_token"} ->
            IF token_accepted(token_of(s)) THEN "ok" ELSE "value_error"
      [] OTHER -> "value_error"

\* the User-Agent that get_random_user_agent() returned at the start of the
\* __login of the call in progress, and any other one it can return
LoginAgent == "ua_login"
OtherAgent == "ua_other"

\* a request k that sends a User-Agent picked anew for the download
request_user_agent_fresh_download(k, chosen, fresh) ==
    IF k = DownloadRequest THEN fresh ELSE chosen

\* the User-Agent header of request k: `**headers` in requests 1 to 7,
\* auth_result["user_agent"] in request 8; chosen is what
\* get_random_user_agent() returned at the start of __login, fresh what
\* another call of it would return
request_user_agent(k, chosen, fresh) == chosen

\* ------------------------------------------------ __fetch_data: size limits

MiB == 1024 * 1024

\* the limit in bytes: size / (1024 * 1024) > MAX_CSV_SIZE_MB compares a float
\* that the division by a power of two leaves exact
SizeLimit == MAX_CSV_SIZE_MB * MiB

\* the sizes tried, in bytes
Sizes == {0, 1, 2 * SizeLimit} \cup {SizeLimit + d : d \in (0 - MaxSlack)..MaxSlack}

\* a response to request 8: its Content-Length header (None when absent) and
\* the UTF-8 length of its decoded text; the two need not agree
Responses == [content_length : {None} \cup Sizes, body : Sizes]

\* no download made yet
NoDownload == [status |-> "pending", body_read |-> FALSE, size |-> 0]

\* __fetch_data accepting a body of any size once the header has passed
fetch_data_trusts_header(r) ==
    IF r.content_length # None /\ r.content_length > SizeLimit
    THEN [status |-> "value_error", body_read |-> FALSE, size |-> 0]
    ELSE [status |-> "returned", body_read |-> TRUE, size |-> r.body]

\* __fetch_data on response r, from raise_for_status() on: how it ends, whether
\* response.text() was awaited, and the size of what it returns
fetch_data(r) ==
    IF r.content_length # None /\ r.content_length > SizeLimit
    THEN [status |-> "value_error", body_read |-> FALSE, size |-> 0]
    ELSE IF r.body > SizeLimit
         THEN [status |-> "value_error", body_read |-> TRUE, size |-> 0]
         ELSE [status |-> "returned", body_read |-> TRUE, size |-> r.body]

\* ------------------------------------------------ ESBDataUpdateCoordinator

\* ESBDataUpdateCoordinator.__init__ with update_interval = interval (hours);
\* notifications and dismissals count the calls of _send_captcha_notification
\* and _dismiss_captcha_notification, issue is the repair issue with its
\* persistent notification, result is what the last update returned or raised;
\* configured keeps the interval the object was constructed with (history)
NewCoordinator(interval) ==
    [captcha_notification_sent |-> FALSE,
     update_interval |-> interval,
     configured |-> interval,
     notifications |-> 0,
     dismissals |-> 0,
     issue |-> FALSE,
     result |-> "no_update"]

\* _async_update_data that sends the notification on every CAPTCHA
async_update_data_renotifies(c, r) ==
    CASE r = "snapshot" ->
           IF c.captcha_notification_sent
           THEN [c EXCEPT !.captcha_notification_sent = FALSE,
                          !.update_interval = DEFAULT_SCAN_INTERVAL,
                          !.dismissals = @ + 1,
                          !.issue = FALSE,
                          !.result = "esb_data"]
           ELSE [c EXCEPT !.result = "esb_data"]
      [] r = "snapshot_empty" -> [c EXCEPT !.result = "esb_data_empty"]
      [] r = "captcha_required" ->
           [c EXCEPT !.captcha_notification_sent = TRUE,
                     !.update_interval = WeeklyInterval,
                     !.notifications = @ + 1,
                     !.issue = TRUE,
                     !.result = "none"]
      [] r = "cancelled" -> [c EXCEPT !.result = "cancelled"]
      [] r \in NetworkErrors -> [c EXCEPT !.result = "update_failed_network"]
      [] r \in {"value_error", "key_error"} -> [c EXCEPT !.result = "update_failed_parsing"]
      [] OTHER -> [c EXCEPT !.result = "update_failed_unexpected"]

\* _async_update_data that lets an exception no clause names through
async_update_data_leaks(c, r) ==
    CASE r = "snapshot" ->
           IF c.captcha_notification_sent
           THEN [c EXCEPT !.captcha_notification_sent = FALSE,
                          !.update_interval = DEFAULT_SCAN_INTERVAL,
                          !.dismissals = @ + 1,
                          !.issue = FALSE,
                          !.result = "esb_data"]
           ELSE [c EXCEPT !.result = "esb_data"]
      [] r = "snapshot_empty" -> [c EXCEPT !.result = "esb_data_empty"]
      [] r = "captcha_required" ->
           IF c.captcha_notification_sent
           THEN [c EXCEPT !.result = "none"]
           ELSE [c EXCEPT !.captcha_notification_sent = TRUE,
                          !.update_interval = WeeklyInterval,
                          !.notifications = @ + 1,
                          !.issue = TRUE,
                          !.result = "none"]
      [] r = "cancelled" -> [c EXCEPT !.result = "cancelled"]
      [] r \in NetworkErrors -> [c EXCEPT !.result = "update_failed_network"]
      [] r \in {"value_error", "key_error"} -> [c EXCEPT !.result = "update_failed_parsing"]
      [] r = "none" -> [c EXCEPT !.result = "update_failed_unexpected"]
      [] OTHER -> [c EXCEPT !.result = r]

\* _async_update_data once the awaited fetch() gave r.  The `raise
\* UpdateFailed` for a None result is inside the try and is caught by `except
\* Exception`; asyncio.CancelledError is a BaseException and no clause catches
\* it.  The persistent_notification services are taken not to fail.
async_update_data(c, r) ==
    CASE r = "snapshot" ->
           IF c.captcha_notification_sent
           THEN [c EXCEPT !.captcha_notification_sent = FALSE,
                          !.update_interval = DEFAULT_SCAN_INTERVAL,
                          !.dismissals = @ + 1,
                          !.issue = FALSE,
                          !.result = "esb_data"]
           ELSE [c EXCEPT !.result = "esb_data"]
      [] r = "snapshot_empty" -> [c EXCEPT !.result = "esb_data_empty"]
      [] r = "captcha_required" ->
           IF c.captcha_notification_sent
           THEN [c EXCEPT !.result = "none"]
           ELSE [c EXCEPT !.captcha_notification_sent = TRUE,
                          !.update_interval = WeeklyInterval,
                          !.notifications = @ + 1,
                          !.issue = TRUE,
                          !.result = "none"]
      [] r = "cancelled" -> [c EXCEPT !.result = "cancelled"]
      [] r \in NetworkErrors -> [c EXCEPT !.result = "update_failed_network"]
      [] r \in {"value_error", "key_error"} -> [c EXCEPT !.result = "update_failed_parsing"]
      [] OTHER -> [c EXCEPT !.result = "update_failed_unexpected"]

\* ---------------------------------------------------------- SessionManager

\* a session file that is absent, unreadable as JSON ("corrupt"), JSON that
\* is falsy ("empty": {}, [], null, 0), other JSON that is no object
\* ("non_object"), or, as a load_session() result, None ("none")
NoRecord(kind) ==
    [kind |-> kind, cookies |-> "missing", user_agent |-> "missing",
     download_token |-> "missing", created_t |-> 0, expires |-> "missing",
     expires_t |-> 0, mprn |-> "missing"]

\* non-empty cookie maps, User-Agent strings, and the download tokens
\* save_session() can be given ("null": None, the default)
CookieJars == {"jar_a", "jar_b"}
UserAgents == {"ua_a", "ua_b"}
DownloadTokens == {"null", "tok_a"}

\* the times an expires_at of the file found at start can name
ExpiryTimes == {k * Tick : k \in 0..MaxTicksSession}

\* the JSON objects a session file can hold: cookies missing, an empty map or
\* a non-empty one; expires_at missing, an empty string, a string that is no
\* ISO-8601 time, a time without UTC offset ("naive") or one with it
\* ("aware"); mprn missing, the manager's or another one; the fields that
\* load_session() only passes on are those of one earlier save
SessionRecords ==
    [kind : {"record"},
     cookies : {"missing", "empty", "jar_a"},
     user_agent : {"ua_a"},
     download_token : {"null"},
     created_t : {0},
     expires : {"missing", "empty", "unparseable"},
     expires_t : {0},
     mprn : {"missing", OwnMprn, OtherMprn}]
    \cup
    [kind : {"record"},
     cookies : {"missing", "empty", "jar_a"},
     user_agent : {"ua_a"},
     download_token : {"null"},
     created_t : {0},
     expires : {"naive", "aware"},
     expires_t : ExpiryTimes,
     mprn : {"missing", OwnMprn, OtherMprn}]

\* what can be on disk when the manager is constructed
SessionFiles ==
    {NoRecord("absent"), NoRecord("corrupt"), NoRecord("empty"), NoRecord("non_object")}
    \cup SessionRecords

\* _read_session_file: json.load, None on json.JSONDecodeError or OSError
read_session_file(f) == IF f.kind = "corrupt" THEN NoRecord("none") ELSE f

\* _is_session_valid comparing with > : a session expiring now is still valid
is_session_valid_inclusive(d, t) ==
    IF d.kind # "record" THEN "raises"
    ELSE IF d.cookies \in {"missing", "empty"} \/ d.expires \in {"missing", "empty"}
    THEN "false"
    ELSE IF d.expires = "unparseable" THEN "false"
    ELSE IF d.expires = "naive" THEN "raises"
    ELSE IF t > d.expires_t THEN "false"
    ELSE IF d.mprn # OwnMprn THEN "false"
    ELSE "true"

\* _is_session_valid at time t: "true", "false", or "raises" when an exception
\* other than ValueError and KeyError leaves it: AttributeError for JSON that
\* has no .get, TypeError for the comparison of the aware utcnow() with a
\* naive expires_at
is_session_valid(d, t) ==
    IF d.kind # "record" THEN "raises"
    ELSE IF d.cookies \in {"missing", "empty"} \/ d.expires \in {"missing", "empty"}
    THEN "false"
    ELSE IF d.expires = "unparseable" THEN "false"
    ELSE IF d.expires = "naive" THEN "raises"
    ELSE IF t >= d.expires_t THEN "false"
    ELSE IF d.mprn # OwnMprn THEN "false"
    ELSE "true"

\* clear_session: unlink the file if it exists
clear_session(f) == NoRecord("absent")

\* load_session at time t: the file afterwards and the value returned
load_session(f, t) ==
    IF f.kind = "absent" THEN [file |-> f, result |-> NoRecord("none")]
    ELSE LET d == read_session_file(f) IN
         IF d.kind \in {"none", "empty"} THEN [file |-> f, result |-> NoRecord("none")]
         ELSE LET v == is_session_valid(d, t) IN
              CASE v = "false" -> [file |-> clear_session(f), result |-> NoRecord("none")]
                [] v = "raises" -> [file |-> f, result |-> NoRecord("none")]
                [] OTHER -> [file |-> f, result |-> d]

\* save_session writing created_at where expires_at belongs
save_session_expiring_at_once(cookies, user_agent, download_token, t) ==
    [kind |-> "record",
     cookies |-> cookies,
     user_agent |-> user_agent,
     download_token |-> download_token,
     created_t |-> t,
     expires |-> "aware",
     expires_t |-> t,
     mprn |-> OwnMprn]

\* save_session at time t: the record written
save_session(cookies, user_agent, download_token, t) ==
    [kind |-> "record",
     cookies |-> cookies,
     user_agent |-> user_agent,
     download_token |-> download_token,
     created_t |-> t,
     expires |-> "aware",
     expires_t |-> t + SESSION_EXPIRY_HOURS * 3600,
     mprn |-> OwnMprn]

\* the except clauses of load_session, save_session and clear_session letting
\* the error through
session_except_reraises(e) == e

\* `except Exception` of load_session, save_session and clear_session: the
\* error e is logged and nothing leaves the method
session_except(e) == "none"

\* what a save_session() that fails leaves on disk: the file as it was when
\* open() failed, a truncated file when the write failed
failed_write(f) == {f, NoRecord("corrupt")}

\* the meters two SessionManagers of one Home Assistant are constructed for
Mprns == {OwnMprn, OtherMprn}

\* SessionManager.__init__ giving every manager the same file
session_file_name_shared(mprn) == SESSION_FILE_NAME \o ".json"

\* SessionManager.__init__: the name of the manager's file in the storage
\* directory
session_file_name(mprn) == SESSION_FILE_NAME \o "_" \o mprn \o ".json"

\* file content f as the manager of meter mprn reads or writes it: the
\* operators above are those of the manager of OwnMprn, the manager of
\* OtherMprn runs the same code with self._mprn = OtherMprn
seen_by(mprn, f) ==
    IF mprn = OwnMprn \/ f.kind # "record" THEN f
    ELSE [f EXCEPT !.mprn = IF @ = OwnMprn THEN OtherMprn
                            ELSE IF @ = OtherMprn THEN OwnMprn ELSE @]

\* load_session of the manager of meter mprn at time t on directory d
manager_load(d, mprn, t) ==
    LET name == session_file_name(mprn)
        r == load_session(seen_by(mprn, d[name]), t)
    IN [files |-> [d EXCEPT ![name] = seen_by(mprn, r.file)],
        result |-> seen_by(mprn, r.result)]

\* save_session of the manager of meter mprn at time t on directory d
manager_save(d, mprn, cookies, user_agent, download_token, t) ==
    [d EXCEPT ![session_file_name(mprn)] =
        seen_by(mprn, save_session(cookies, user_agent, download_token, t))]

\* clear_session of the manager of meter mprn on directory d
manager_clear(d, mprn) ==
    [d EXCEPT ![session_file_name(mprn)] = clear_session(@)]

\* one part of a cookie string between two semicolons: name, then "=" and
\* value if eq, the whole with blanks around it if pad
CookiePart(pad, name, eq, value) ==
    [pad |-> pad, name |-> name, eq |-> eq, value |-> value]

\* the parts tried: "", "  ", "word", "a=1", " b=2 "
CookieParts ==
    {CookiePart(FALSE, "", FALSE, ""), CookiePart(TRUE, "", FALSE, ""),
     CookiePart(FALSE, "word", FALSE, ""), CookiePart(FALSE, "a", TRUE, "1"),
     CookiePart(TRUE, "b", TRUE, "2")}

\* the cookie strings tried, as cookie_string.split(";") gives them
CookieStrings == UNION {[1..n -> CookieParts] : n \in 1..MaxParts}

\* the cookie names of CookieParts, in the order cookie_jar writes them
CookieNames == <<"a", "b">>

\* cookies = {}
NoCookies == [x \in {} |-> ""]

\* part.strip()
strip(part) == [part EXCEPT !.pad = FALSE]

\* _parse_cookie_string: the dict after the first n parts of raw; a part
\* without "=" is skipped, a later part overrides an earlier one of its name
RECURSIVE parse_cookie_string(_, _)
parse_cookie_string(raw, n) ==
    IF n = 0 THEN NoCookies
    ELSE LET cookies == parse_cookie_string(raw, n - 1)
             part == strip(raw[n])
         IN IF part.eq
            THEN [x \in DOMAIN cookies \cup {part.name} |->
                     IF x = part.name THEN part.value ELSE cookies[x]]
            ELSE cookies

\* the cookies of a dict as the session file holds them: "empty" for {}
RECURSIVE cookie_jar(_, _)
cookie_jar(cookies, n) ==
    IF DOMAIN cookies = {} THEN "empty"
    ELSE IF n = 0 THEN ""
    ELSE cookie_jar(cookies, n - 1) \o
         (IF CookieNames[n] \in DOMAIN cookies
          THEN CookieNames[n] \o "=" \o cookies[CookieNames[n]] \o ";"
          ELSE "")

\* the User-Agent save_manual_cookies stores
ManualAgent == "ua_manual"

\* save_manual_cookies at time t on file f: the files it can leave and the
\* value it returns; write_ok tells whether open() and json.dump() of
\* save_session succeed, and save_session returns normally either way
save_manual_cookies(f, raw, t, write_ok) ==
    LET cookies == parse_cookie_string(raw, Len(raw)) IN
    IF DOMAIN cookies = {} THEN {[file |-> f, ret |-> "false"]}
    ELSE IF write_ok
    THEN {[file |-> save_session(cookie_jar(cookies, Len(CookieNames)),
                                 ManualAgent, "null", t),
           ret |-> "true"]}
    ELSE {[file |-> g, ret |-> "true"] : g \in failed_write(f)}

\* ----------------------------------------------------------------- ESBData

Hour == 3600
Day == 24 * Hour

\* the calendar: time 0 is Monday 1 June 2026, 00:00 local time; the first
\* days of June to October 2026, in days since then
EpochWeekday == 0
MonthStarts == {0, 30, 61, 92, 122}

MaxOf(S) == CHOOSE x \in S : \A y \in S : y <= x

\* datetime.replace(hour=0, minute=0, second=0, microsecond=0)
day_start(t) == Date(t) * Day

\* datetime.weekday(): Monday is 0
weekday(t) == (Date(t) + EpochWeekday) % 7

\* datetime.replace(day=1, hour=0, minute=0, second=0, microsecond=0)
month_start(t) == MaxOf({d \in MonthStarts : d <= Date(t)}) * Day

\* a cell of a row as csv.DictReader gives it: the column is not in the
\* header ("absent"), the line ends before the column (None), a string that
\* does not parse ("bad"), or a string that parses to x ("str")
Cell(kind, x) == [kind |-> kind, x |-> x]

\* datetime.strptime(cell, CSV_DATE_FORMAT) and float(cell): "ok" or the
\* exception raised
parse_cell(c) ==
    CASE c.kind = "absent" -> "key_error"
      [] c.kind = "none" -> "type_error"
      [] c.kind = "bad" -> "value_error"
      [] OTHER -> "ok"

\* ESBData before construction, and a constructor that raised
NoData(kind) == [kind |-> kind, data |-> <<>>]

\* _validate_csv_structure: both columns are keys of the row
validate_csv_structure(row) == row.date.kind # "absent" /\ row.value.kind # "absent"

\* one turn of the loop of _filter_and_parse_data on row, p being the list so
\* far: `except (ValueError, KeyError)` skips the row, a TypeError leaves
\* the loop and the constructor
parse_row(p, row, cutoff_date) ==
    LET d == parse_cell(row.date)
        v == parse_cell(row.value)
    IN  IF d = "type_error" THEN NoData("type_error")
        ELSE IF d # "ok" THEN p
        ELSE IF row.date.x >= cutoff_date
        THEN IF v = "type_error" THEN NoData("type_error")
             ELSE IF v # "ok" THEN p
             ELSE [p EXCEPT !.data = Append(@, <<row.date.x, row.value.x>>)]
        ELSE p

\* _filter_and_parse_data on the first n rows of data
RECURSIVE filter_and_parse_data(_, _, _)
filter_and_parse_data(data, n, cutoff_date) ==
    IF n = 0 THEN NoData("data")
    ELSE LET p == filter_and_parse_data(data, n - 1, cutoff_date) IN
         IF p.kind # "data" THEN p ELSE parse_row(p, data[n], cutoff_date)

\* ESBData(data=data) at time t
ESBData(data, t) ==
    IF data # <<>> /\ ~validate_csv_structure(data[1]) THEN NoData("value_error")
    ELSE filter_and_parse_data(data, Len(data), t - MAX_DATA_AGE_DAYS * Day)

\* __sum_data_since leaving out a reading made at `since`
RECURSIVE sum_data_since_exclusive(_, _)
sum_data_since_exclusive(data, since) ==
    IF data = <<>> THEN 0
    ELSE (IF Head(data)[1] > since THEN Head(data)[2] ELSE 0)
         + sum_data_since_exclusive(Tail(data), since)

\* __sum_data_since: the sum of the values whose timestamp >= since
RECURSIVE sum_data_since(_, _)
sum_data_since(data, since) ==
    IF data = <<>> THEN 0
    ELSE (IF Head(data)[1] >= since THEN Head(data)[2] ELSE 0)
         + sum_data_since(Tail(data), since)

\* the properties of ESBData read at time t
today(data, t) == sum_data_since(data, day_start(t))
last_24_hours(data, t) == sum_data_since(data, t - Day)
\* this_week counting from the Monday of the week before
this_week_from_last_monday(data, t) ==
    sum_data_since(data, day_start(t) - (weekday(t) + 7) * Day)
this_week(data, t) == sum_data_since(data, day_start(t) - weekday(t) * Day)
last_7_days(data, t) == sum_data_since(data, t - 7 * Day)
this_month(data, t) == sum_data_since(data, month_start(t))
last_30_days(data, t) == sum_data_since(data, t - 30 * Day)

\* nothing read yet
NoUsage ==
    [kind |-> "unread", at |-> 0, today |-> 0, last_24_hours |-> 0, this_week |-> 0,
     last_7_days |-> 0, this_month |-> 0, last_30_days |-> 0]

\* the time ESBData is first constructed at: Wednesday 9 September 2026, 10:00
DataStart == 100 * Day + 10 * Hour

\* timestamps of readings: just older than the retention window at DataStart
\* and on its edge, and on the edge of each aggregate's window
ReadingTimes ==
    {DataStart - MAX_DATA_AGE_DAYS * Day - Hour, DataStart - MAX_DATA_AGE_DAYS * Day,
     DataStart - 30 * Day, month_start(DataStart), DataStart - 7 * Day,
     day_start(DataStart) - weekday(DataStart) * Day, DataStart - Day,
     day_start(DataStart)}

\* rows of a CSV text whose header has both columns
CsvRows ==
    [date : {Cell("none", 0), Cell("bad", 0)} \cup {Cell("str", t) : t \in ReadingTimes},
     value : {Cell("none", 0), Cell("bad", 0), Cell("str", 1), Cell("str", 2)}]

\* the lists __csv_to_dict can return with at most n rows: every row has the
\* header's columns as keys; when the header misses a column the first row
\* decides
RECURSIVE CsvData(_)
CsvData(n) ==
    IF n = 0
    THEN {<<>>,
          <<[date |-> Cell("absent", 0), value |-> Cell("str", 1)]>>,
          <<[date |-> Cell("str", DataStart), value |-> Cell("absent", 0)]>>}
    ELSE CsvData(n - 1)
         \cup {Append(s, r) : s \in {x \in CsvData(n - 1) : Len(x) = n - 1}, r \in CsvRows}

\* ------------------------------------------------------ async_unload_entry

Entries == {"e1", "e2"}

\* async_unload_entry that keeps the entry's data when close() raised
async_unload_entry_losing_pop(data, sessions, e, unload_ok, close_error, after) ==
    IF ~unload_ok
    THEN [data |-> data, sessions |-> sessions, close_called |-> FALSE, result |-> FALSE]
    ELSE LET open == data[e] = "with_session" /\ sessions[e] = "open" IN
         [data |-> IF open /\ close_error THEN data ELSE [data EXCEPT ![e] = "absent"],
          sessions |-> IF open THEN [sessions EXCEPT ![e] = after] ELSE sessions,
          close_called |-> open,
          result |-> TRUE]

\* async_unload_entry(hass, entry) for entry e: unload_ok is what
\* async_unload_platforms returned, close_error whether session.close()
\* raises, after the state close() leaves the session in
async_unload_entry(data, sessions, e, unload_ok, close_error, after) ==
    IF ~unload_ok
    THEN [data |-> data, sessions |-> sessions, close_called |-> FALSE, result |-> FALSE]
    ELSE LET open == data[e] = "with_session" /\ sessions[e] = "open" IN
         [data |-> [data EXCEPT ![e] = "absent"],
          sessions |-> IF open THEN [sessions EXCEPT ![e] = after] ELSE sessions,
          close_called |-> open,
          result |-> TRUE]

\* how coordinator.async_config_entry_first_refresh() can end: it returns,
\* raises ConfigEntryNotReady because the first update failed, or the task
\* is cancelled while the fetch is suspended
FirstRefreshes == {"ok", "config_entry_not_ready", "cancelled"}

\* async_setup_entry for entry e: the new session is open; an exception
\* leaving the first refresh leaves the function before the session is
\* stored; one raised by the platform setup leaves it after
async_setup_entry(data, sessions, e, refresh, forward_ok) ==
    IF refresh # "ok"
    THEN [data |-> data,
          sessions |-> [sessions EXCEPT ![e] = "open"],
          result |-> refresh]
    ELSE [data |-> [data EXCEPT ![e] = "with_session"],
          sessions |-> [sessions EXCEPT ![e] = "open"],
          result |-> IF forward_ok THEN "true" ELSE "platform_error"]

\* no async_unload_entry() call made yet
NoUnload ==
    [entry |-> "none", unload_ok |-> FALSE, close_error |-> FALSE, close_called |-> FALSE,
     result |-> FALSE]

\* ------------------------------------------------------------ ESBCachingApi

\* ESBCachingApi.__init__: nothing cached, the lock free and nobody waiting
NewCachingApi ==
    [data |-> 0, timestamp |-> None, holder |-> "none", waiters |-> <<>>]

\* a task that is not inside ESBCachingApi.fetch(); result is how its last
\* call ended, got the data it returned (0: None, n: the ESBData of the
\* n-th underlying fetch), checked the time it looked at the cache
IdleTask(result, got, checked) ==
    [pc |-> "idle", result |-> result, got |-> got, checked |-> checked]

\* the test of fetch() with every timestamp taken for too old
cache_stale_always(c, t) == TRUE

\* the test of fetch(): nothing cached yet, or cached longer ago than
\* DEFAULT_SCAN_INTERVAL
cache_stale(c, t) ==
    \/ c.timestamp = None
    \/ c.timestamp < t - DEFAULT_SCAN_INTERVAL * 3600

\* asyncio.Lock.acquire() without suspending: the lock is free and no
\* earlier caller waits for it
lock_free(c) == c.holder = "none" /\ c.waiters = <<>>

\* the sequence s without its element x
RECURSIVE Without(_, _)
Without(s, x) ==
    IF s = <<>> THEN <<>>
    ELSE IF Head(s) = x THEN Without(Tail(s), x)
    ELSE <<Head(s)>> \o Without(Tail(s), x)

\* ------------------------------------------- sensor.py: the retrying fetch()

\* how one attempt (login, download, parse, ESBData) of the loop ends: with
\* an ESBData ("snapshot"), ValueError, aiohttp.ClientResponseError of some
\* status ("http"), another aiohttp.ClientError, asyncio.TimeoutError, or
\* any other exception
Attempt(kind, status) == [kind |-> kind, status |-> status]

\* the HTTP statuses tried
Statuses == {401, 404, 429, 500, 503}

AttemptResults ==
    {Attempt(k, 0) : k \in {"snapshot", "value_error", "client_error", "timeout", "other"}}
    \cup {Attempt("http", s) : s \in Statuses}

\* fetch() before its call and before its first error
NoAttempt == Attempt("none", 0)

\* the except clauses of the loop for an attempt that ended as r: "return",
\* "raise" (at once), or "retry" (last_error = err, then sleep or fall out
\* of the loop)
retry_except(r) ==
    CASE r.kind = "snapshot" -> "return"
      [] r.kind = "value_error" -> "raise"
      [] r.kind = "http" -> IF 400 <= r.status /\ r.status < 500 THEN "raise" ELSE "retry"
      [] r.kind \in {"client_error", "timeout"} -> "retry"
      [] OTHER -> "raise"

\* fetch() after the attempt numbered attempt (from 0) ended as r: the loop
\* state that follows
retry_fetch(f, r) ==
    LET x == retry_except(r) IN
    CASE x = "return" -> [f EXCEPT !.pc = "idle", !.result = r]
      [] x = "raise" -> [f EXCEPT !.pc = "idle", !.result = r]
      [] OTHER ->
           IF f.attempt < DEFAULT_MAX_RETRIES - 1
           THEN [f EXCEPT !.pc = "sleep", !.last_error = r]
           ELSE [f EXCEPT !.pc = "idle", !.last_error = r, !.result = r]

\* ------------------------------------------------------------------ Init

\* no ESBData constructed
InitSnapshot ==
    /\ rows = <<>>
    /\ esb = NoData("unbuilt")
    /\ usage = NoUsage

\* no config entry set up
InitEntries ==
    /\ entry_data = [e \in Entries |-> "absent"]
    /\ session_state = [e \in Entries |-> "none"]
    /\ unloaded = NoUnload
    /\ setup = [entry |-> "none", result |-> "none"]


\* ESBDataApi.__init__: a new breaker, no fetch() in progress
\* what a session file of the directory can hold at start: nothing, or a
\* record of either meter
MeterFiles ==
    {NoRecord("absent")}
    \cup {f \in SessionRecords : f.cookies = "jar_a" /\ f.expires = "aware"
                                  /\ f.mprn \in Mprns}

InitMeters ==
    /\ files = [name \in {session_file_name(mprn) : mprn \in Mprns} |-> NoRecord("absent")]
    /\ managed = [mprn |-> "none", result |-> NoRecord("none")]

InitRetry ==
    retry = [pc |-> "idle", attempt |-> 0, attempts |-> 0, slept |-> 0,
             last_error |-> NoAttempt, result |-> NoAttempt]

InitCache ==
    /\ cache = NewCachingApi
    /\ ctask = [t \in Tasks |-> IdleTask("none", 0, None)]
    /\ fetches = 0

InitApi ==
    /\ now = 0
    /\ cb = NewCircuitBreaker
    /\ op = "init"
    /\ ret = "none"
    /\ calls = 0
    /\ consec = 0
    /\ pc = [t \in Tasks |-> "idle"]
    /\ req = [t \in Tasks |-> 0]
    /\ outcome = [t \in Tasks |-> "none"]
    /\ gate_day = None
    /\ gate_passes = 0
    /\ gate_cancelled = 0
    /\ raised = [t \in Tasks |-> "none"]
    /\ markers = [t \in Tasks |-> {}]
    /\ req_ua = [t \in Tasks |-> "none"]
    /\ token = [t \in Tasks |-> "none"]
    /\ shape = [t \in Tasks |-> "none"]

\* no update made yet by a coordinator with the default interval
InitCoordinator ==
    /\ coord = NewCoordinator(DEFAULT_SCAN_INTERVAL)
    /\ fetched = [last |-> "no_fetch", before |-> "no_fetch"]

\* no download made
InitDownload ==
    /\ response = [content_length |-> None, body |-> 0]
    /\ download = NoDownload

\* no session file, nothing loaded
InitSessionManager ==
    /\ session_file = NoRecord("absent")
    /\ loaded = NoRecord("none")
    /\ saved = NoRecord("none")
    /\ disk = "ok"
    /\ propagated = "none"
    /\ cookie_string = <<>>

Init ==
    /\ InitApi
    /\ InitSnapshot
    /\ InitEntries
    /\ InitCache
    /\ InitRetry
    /\ InitMeters
    /\ InitCoordinator
    /\ InitDownload
    /\ InitSessionManager

\* ------------------------------------------------------------- the clock

Advance(limit) ==
    /\ now + Tick <= Tick * limit
    /\ now' = now + Tick
    /\ UNCHANGED <<cb, unitVars, consec, fetchVars, captchaVars, coordVars, downloadVars,
                   sessionVars, dataVars, unloadVars, loginVars, cacheVars, retryVars,
                   meterVars>>

ClockTick == Advance(MaxTicks)

ClockTickConc == Advance(MaxTicksConc)

\* ------------------------------------- SpecCB: the breaker, method by method

CallCanAttempt ==
    LET r == can_attempt(cb, now) IN
    /\ cb' = r.cb
    /\ op' = "can_attempt"
    /\ ret' = IF r.ok THEN "true" ELSE "false"
    /\ calls' = 1 - calls
    /\ UNCHANGED <<now, consec, fetchVars, captchaVars, coordVars, downloadVars, sessionVars,
                   dataVars, unloadVars, loginVars, cacheVars, retryVars, meterVars>>

CallRecordSuccess ==
    /\ cb.daily_attempts < MaxAttempts
    /\ cb' = record_success(cb)
    /\ op' = "record_success"
    /\ ret' = "none"
    /\ calls' = 1 - calls
    /\ consec' = 0
    /\ UNCHANGED <<now, fetchVars, captchaVars, coordVars, downloadVars, sessionVars,
                   dataVars, unloadVars, loginVars, cacheVars, retryVars, meterVars>>

CallRecordFailure ==
    /\ cb.daily_attempts < MaxAttempts
    /\ cb.failure_count < MaxFailures
    /\ cb' = record_failure(cb, now)
    /\ op' = "record_failure"
    /\ ret' = "none"
    /\ calls' = 1 - calls
    /\ consec' = consec + 1
    /\ UNCHANGED <<now, fetchVars, captchaVars, coordVars, downloadVars, sessionVars,
                   dataVars, unloadVars, loginVars, cacheVars, retryVars, meterVars>>

NextCB ==
    \/ ClockTick
    \/ CallCanAttempt
    \/ CallRecordSuccess
    \/ CallRecordFailure

SpecCB == Init /\ [][NextCB]_vars

\* ------------------------------------------------- ESBDataApi.fetch, step by step
\* A fetch() call runs from one suspension point to the next in one action.  The
\* human-like delay awaited before requests 2, 4, 6 and 7 is part of the wait for
\* the request that precedes it: nothing of the call's state changes across it.

\* fetch that ignores what can_attempt() returned
admitted_always(b, t) == TRUE

\* fetch: `if not self._circuit_breaker.can_attempt(): raise RuntimeError(...)`
admitted(b, t) == can_attempt(b, t).ok

\* what ends a fetch() at request k besides a network error and a response
\* that __login cannot parse: a download that is too large, or an exception
\* nobody expected
OtherErrors(k) == IF k = DownloadRequest THEN {"value_error", "other"} ELSE {"other"}

\* fetch() is refused at the gate: RuntimeError("Circuit breaker is open. ...")
FetchRefused(t) ==
    /\ pc[t] = "idle"
    /\ ~admitted(cb, now)
    /\ cb' = can_attempt(cb, now).cb
    /\ outcome' = [outcome EXCEPT ![t] = "breaker_open"]
    /\ raised' = [raised EXCEPT ![t] = "none"]
    /\ markers' = [markers EXCEPT ![t] = {}]
    /\ coord' = async_update_data(coord, "breaker_open")
    /\ shape' = [shape EXCEPT ![t] = "none"]
    /\ UNCHANGED <<req_ua, token>>
    /\ UNCHANGED <<now, unitVars, consec, pc, req, gate_day, gate_passes, gate_cancelled,
                   fetched, downloadVars, sessionVars, dataVars, unloadVars, cacheVars,
                   retryVars, meterVars>>

\* fetch() passes the gate, enters __login and issues request 1
FetchAdmitted(t) ==
    /\ pc[t] = "idle"
    /\ admitted(cb, now)
    /\ cb' = can_attempt(cb, now).cb
    /\ pc' = [pc EXCEPT ![t] = "request"]
    /\ req' = [req EXCEPT ![t] = 1]
    /\ outcome' = [outcome EXCEPT ![t] = "pending"]
    /\ gate_day' = Date(now)
    /\ gate_passes' = IF gate_day = Date(now) THEN gate_passes + 1 ELSE 1
    /\ gate_cancelled' = IF gate_day = Date(now) THEN gate_cancelled ELSE 0
    /\ raised' = [raised EXCEPT ![t] = "none"]
    /\ markers' = [markers EXCEPT ![t] = {}]
    /\ req_ua' = [req_ua EXCEPT ![t] = request_user_agent(1, LoginAgent, LoginAgent)]
    /\ token' = [token EXCEPT ![t] = "none"]
    /\ shape' = [shape EXCEPT ![t] = "none"]
    /\ UNCHANGED <<now, unitVars, consec, coordVars, downloadVars, sessionVars,
                   dataVars, unloadVars, cacheVars, retryVars, meterVars>>

\* request k is answered and accepted: the next request is issued, or after the
\* download the CSV text is handed to the executor job
RequestOk(t) ==
    /\ pc[t] = "request"
    /\ \E s \in Shapes(req[t]) :
          /\ login_parse(req[t], s) = "ok"
          /\ token' = IF req[t] = 7 THEN [token EXCEPT ![t] = token_of(s)] ELSE token
    /\ IF req[t] < DownloadRequest
       THEN /\ req' = [req EXCEPT ![t] = @ + 1]
            /\ pc' = pc
            /\ \E fresh \in {LoginAgent, OtherAgent} :
                  req_ua' = [req_ua EXCEPT
                                ![t] = request_user_agent(req[t] + 1, LoginAgent, fresh)]
       ELSE /\ pc' = [pc EXCEPT ![t] = "parse"]
            /\ req' = req
            /\ req_ua' = [req_ua EXCEPT ![t] = "none"]
    /\ shape' = shape
    /\ UNCHANGED <<now, cb, unitVars, consec, outcome, gate_day, gate_passes, gate_cancelled,
                   captchaVars, coordVars, downloadVars, sessionVars,
                   dataVars, unloadVars, cacheVars, retryVars, meterVars>>

\* an exception e is raised inside the try of fetch() after a step-3 response
\* with CAPTCHA markers M (none for every other exception) or a response of
\* shape s that __login could not parse ("none" for every other exception):
\* the except clause that catches e runs, and what it raises reaches
\* _async_update_data
FetchFails(t, e, M, s) ==
    LET h == fetch_except(e) IN
    /\ req_ua' = [req_ua EXCEPT ![t] = "none"]
    /\ token' = [token EXCEPT ![t] = "none"]
    /\ shape' = [shape EXCEPT ![t] = s]
    /\ cb' = IF h.record THEN record_failure(cb, now) ELSE cb
    /\ consec' = IF h.record THEN consec + 1 ELSE consec
    /\ pc' = [pc EXCEPT ![t] = "idle"]
    /\ req' = [req EXCEPT ![t] = 0]
    /\ outcome' = [outcome EXCEPT ![t] = h.raises]
    /\ raised' = [raised EXCEPT ![t] = e]
    /\ markers' = [markers EXCEPT ![t] = M]
    /\ coord' = async_update_data(coord, h.raises)
    /\ UNCHANGED <<now, unitVars, gate_day, gate_passes, gate_cancelled, fetched,
                   downloadVars, sessionVars, dataVars, unloadVars, cacheVars,
                   retryVars, meterVars>>

\* request k fails: an HTTP status, a network error, a timeout, a download
\* that is too large, or an unexpected exception
RequestFails(t) ==
    /\ pc[t] = "request"
    /\ \E e \in NetworkErrors \cup OtherErrors(req[t]) : FetchFails(t, e, {}, "none")

\* request 1, 3 or 7 is answered with a response that __login cannot parse
ShapeFails(t) ==
    /\ pc[t] = "request"
    /\ \E s \in Shapes(req[t]) :
          /\ login_parse(req[t], s) # "ok"
          /\ FetchFails(t, login_parse(req[t], s), {}, s)

\* request 3 is answered with a text that holds CAPTCHA markers
CaptchaDetected(t) ==
    /\ pc[t] = "request"
    /\ req[t] = ConfirmRequest
    /\ \E M \in (SUBSET CaptchaMarkers) \ {{}} : FetchFails(t, captcha_error, M, "none")

\* the executor job __csv_to_dict raises
ParseFails(t) ==
    /\ pc[t] = "parse"
    /\ FetchFails(t, "other", {}, "none")

\* the executor job returns the rows: record_success(), then ESBData(data=data),
\* whose constructor raises ValueError when the first row lacks a required column
\* and TypeError when a row has None for a cell; the exception is caught by
\* fetch()'s own `except ValueError` or `except Exception`.  A valid ESBData
\* holds the rows that parse and are recent enough, possibly none.
ParseOk(t) ==
    /\ pc[t] = "parse"
    /\ \/ /\ cb' = record_success(cb)
          /\ consec' = 0
          /\ outcome' = [outcome EXCEPT ![t] = "snapshot"]
          /\ raised' = raised
          /\ \E r \in {"snapshot", "snapshot_empty"} : coord' = async_update_data(coord, r)
       \/ \E e \in {"value_error", "other"} :
          LET h == fetch_except(e) IN
          /\ cb' = IF h.record THEN record_failure(record_success(cb), now)
                   ELSE record_success(cb)
          /\ consec' = IF h.record THEN 1 ELSE 0
          /\ outcome' = [outcome EXCEPT ![t] = h.raises]
          /\ raised' = [raised EXCEPT ![t] = e]
          /\ coord' = async_update_data(coord, h.raises)
    /\ pc' = [pc EXCEPT ![t] = "idle"]
    /\ req' = [req EXCEPT ![t] = 0]
    /\ token' = [token EXCEPT ![t] = "none"]
    /\ UNCHANGED <<req_ua, shape>>
    /\ UNCHANGED <<now, unitVars, gate_day, gate_passes, gate_cancelled, markers, fetched,
                   downloadVars, sessionVars, dataVars, unloadVars, cacheVars,
                   retryVars, meterVars>>

\* the coroutine is cancelled while suspended: asyncio.CancelledError is a
\* BaseException, no except clause of fetch() or __login catches it, and it
\* leaves fetch() without record_success() or record_failure()
FetchCancelled(t) ==
    /\ pc[t] # "idle"
    /\ gate_cancelled < MaxCancels
    /\ pc' = [pc EXCEPT ![t] = "idle"]
    /\ req' = [req EXCEPT ![t] = 0]
    /\ outcome' = [outcome EXCEPT ![t] = "cancelled"]
    /\ gate_cancelled' = gate_cancelled + 1
    /\ coord' = async_update_data(coord, "cancelled")
    /\ req_ua' = [req_ua EXCEPT ![t] = "none"]
    /\ token' = [token EXCEPT ![t] = "none"]
    /\ shape' = shape
    /\ UNCHANGED <<now, cb, unitVars, consec, gate_day, gate_passes, captchaVars, fetched,
                   downloadVars, sessionVars, dataVars, unloadVars, cacheVars,
                   retryVars, meterVars>>

\* one caller, one call at a time
Next ==
    \/ ClockTick
    \/ FetchRefused(Caller)
    \/ FetchAdmitted(Caller)
    \/ RequestOk(Caller)
    \/ RequestFails(Caller)
    \/ ShapeFails(Caller)
    \/ CaptchaDetected(Caller)
    \/ ParseFails(Caller)
    \/ ParseOk(Caller)
    \/ FetchCancelled(Caller)

Spec == Init /\ [][Next]_vars

\* two callers whose calls may overlap
NextConc ==
    \/ ClockTickConc
    \/ \E t \in Tasks : FetchRefused(t)
    \/ \E t \in Tasks : FetchAdmitted(t)
    \/ \E t \in Tasks : RequestOk(t)
    \/ \E t \in Tasks : RequestFails(t)
    \/ \E t \in Tasks : ShapeFails(t)
    \/ \E t \in Tasks : CaptchaDetected(t)
    \/ \E t \in Tasks : ParseFails(t)
    \/ \E t \in Tasks : ParseOk(t)
    \/ \E t \in Tasks : FetchCancelled(t)

SpecConc == Init /\ [][NextConc]_vars

\* ------------------------- SpecCached: fetch() with a session file on disk

\* the session files an earlier run can have left for this meter: none, one
\* that load_session() accepts until its expires_at, one with a download token
CachedSessions ==
    {NoRecord("absent"), save_session("jar_a", "ua_a", "tok_a", 0)}
    \cup {f \in SessionRecords : /\ f.cookies \in CookieJars
                                 /\ f.expires = "aware"
                                 /\ f.mprn = OwnMprn}

InitCached ==
    /\ InitApi
    /\ InitSnapshot
    /\ InitEntries
    /\ InitCache
    /\ InitRetry
    /\ InitMeters
    /\ InitCoordinator
    /\ InitDownload
    /\ session_file \in CachedSessions
    /\ loaded = NoRecord("none")
    /\ saved = NoRecord("none")
    /\ disk = "ok"
    /\ propagated = "none"
    /\ cookie_string = <<>>

NextCached ==
    \/ ClockTickConc
    \/ FetchRefused(Caller)
    \/ FetchAdmitted(Caller)
    \/ RequestOk(Caller)
    \/ RequestFails(Caller)
    \/ ShapeFails(Caller)
    \/ CaptchaDetected(Caller)
    \/ ParseFails(Caller)
    \/ ParseOk(Caller)
    \/ FetchCancelled(Caller)

SpecCached == InitCached /\ [][NextCached]_vars

\* --------------------------------- SpecCoord: the coordinator on a stubbed fetch()

\* a coordinator constructed with any of the configured intervals
InitCoord ==
    /\ InitApi
    /\ InitSnapshot
    /\ InitEntries
    /\ InitCache
    /\ InitRetry
    /\ InitMeters
    /\ coord \in {NewCoordinator(i) : i \in ConfiguredIntervals}
    /\ fetched = [last |-> "no_fetch", before |-> "no_fetch"]
    /\ InitDownload
    /\ InitSessionManager

\* _async_update_data() runs and the fetch() it awaits gives r
UpdateData(r) ==
    /\ fetched' = [last |-> r, before |-> fetched.last]
    /\ coord' = async_update_data(coord, r)
    /\ op' = "update"
    /\ calls' = 1 - calls
    /\ UNCHANGED <<now, cb, ret, consec, fetchVars, captchaVars, downloadVars, sessionVars,
                   dataVars, unloadVars, loginVars, cacheVars, retryVars, meterVars>>

\* fetch() returns an ESBData, with rows or without
UpdateGetsData == \E r \in {"snapshot", "snapshot_empty"} : UpdateData(r)

\* fetch() raises CaptchaRequiredException
UpdateMeetsCaptcha ==
    /\ coord.notifications < MaxNotifications
    /\ UpdateData("captcha_required")

\* fetch() returns None, raises any other exception or is cancelled
UpdateFails ==
    \E r \in FetchResults \ {"snapshot", "snapshot_empty", "captcha_required"} :
        UpdateData(r)

NextCoord ==
    \/ UpdateGetsData
    \/ UpdateMeetsCaptcha
    \/ UpdateFails

SpecCoord == InitCoord /\ [][NextCoord]_vars

\* ------------------------------------- SpecDownload: __fetch_data on one response

\* request 8 is answered with any of the responses
InitResponse ==
    /\ InitApi
    /\ InitSnapshot
    /\ InitEntries
    /\ InitCache
    /\ InitRetry
    /\ InitMeters
    /\ InitCoordinator
    /\ response \in Responses
    /\ download = NoDownload
    /\ InitSessionManager

\* __fetch_data handles the response
FetchData ==
    /\ download.status = "pending"
    /\ download' = fetch_data(response)
    /\ UNCHANGED <<now, cb, unitVars, consec, fetchVars, captchaVars, coordVars, response,
                   sessionVars, dataVars, unloadVars, loginVars, cacheVars, retryVars,
                   meterVars>>

NextDownload == FetchData

SpecDownload == InitResponse /\ [][NextDownload]_vars

\* ----------------------------------- SpecSession: SessionManager, method by method

\* the manager is constructed with any file on disk
InitSession ==
    /\ InitApi
    /\ InitSnapshot
    /\ InitEntries
    /\ InitCache
    /\ InitRetry
    /\ InitMeters
    /\ InitCoordinator
    /\ InitDownload
    /\ session_file \in SessionFiles
    /\ loaded = NoRecord("none")
    /\ saved = NoRecord("none")
    /\ disk = "ok"
    /\ propagated = "none"
    /\ cookie_string = <<>>

ClockTickSession == Advance(MaxTicksSession)

\* the lifetime of a session passes at once
SessionExpiryPasses ==
    /\ now < SESSION_EXPIRY_HOURS * 3600
    /\ now' = now + SESSION_EXPIRY_HOURS * 3600
    /\ UNCHANGED <<cb, unitVars, consec, fetchVars, captchaVars, coordVars, downloadVars,
                   sessionVars, dataVars, unloadVars, loginVars, cacheVars, retryVars,
                   meterVars>>

LoadSession ==
    LET r == load_session(session_file, now) IN
    /\ session_file' = r.file
    /\ loaded' = r.result
    /\ saved' = IF r.file = session_file THEN saved ELSE NoRecord("none")
    /\ disk' = "ok"
    /\ propagated' = "none"
    /\ cookie_string' = cookie_string
    /\ op' = "load_session"
    /\ calls' = 1 - calls
    /\ UNCHANGED <<now, cb, ret, consec, fetchVars, captchaVars, coordVars, downloadVars,
                   dataVars, unloadVars, loginVars, cacheVars, retryVars, meterVars>>

SaveSession ==
    /\ \E cookies \in {"empty"} \cup CookieJars, ua \in UserAgents, tok \in DownloadTokens :
          session_file' = save_session(cookies, ua, tok, now)
    /\ saved' = session_file'
    /\ disk' = "ok"
    /\ propagated' = "none"
    /\ cookie_string' = cookie_string
    /\ op' = "save_session"
    /\ calls' = 1 - calls
    /\ UNCHANGED <<now, cb, ret, consec, fetchVars, captchaVars, coordVars, downloadVars,
                   loaded, dataVars, unloadVars, loginVars, cacheVars, retryVars,
                   meterVars>>

ClearSession ==
    /\ session_file' = clear_session(session_file)
    /\ saved' = NoRecord("none")
    /\ disk' = "ok"
    /\ propagated' = "none"
    /\ cookie_string' = cookie_string
    /\ op' = "clear_session"
    /\ calls' = 1 - calls
    /\ UNCHANGED <<now, cb, ret, consec, fetchVars, captchaVars, coordVars, downloadVars,
                   loaded, dataVars, unloadVars, loginVars, cacheVars, retryVars,
                   meterVars>>

NextSession ==
    \/ ClockTickSession
    \/ SessionExpiryPasses
    \/ LoadSession
    \/ SaveSession
    \/ ClearSession

SpecSession == InitSession /\ [][NextSession]_vars

\* ------------------------------- SpecSessionIO: SessionManager on a failing disk

\* load_session() when the disk fails: exists() raises, or open() or read()
\* does (_read_session_file gives None), or the file is invalid and unlink()
\* raises inside clear_session(); the file stays, None is returned
LoadSessionDiskFails ==
    /\ session_file' = session_file
    /\ loaded' = NoRecord("none")
    /\ saved' = saved
    /\ disk' = "os_error"
    /\ propagated' = session_except("os_error")
    /\ cookie_string' = cookie_string
    /\ op' = "load_session"
    /\ calls' = 1 - calls
    /\ UNCHANGED <<now, cb, ret, consec, fetchVars, captchaVars, coordVars, downloadVars,
                   dataVars, unloadVars, loginVars, cacheVars, retryVars, meterVars>>

\* save_session() when open() or json.dump() raises
SaveSessionDiskFails ==
    /\ session_file' \in failed_write(session_file)
    /\ saved' = IF session_file' = session_file THEN saved ELSE NoRecord("none")
    /\ disk' = "os_error"
    /\ propagated' = session_except("os_error")
    /\ cookie_string' = cookie_string
    /\ op' = "save_session"
    /\ calls' = 1 - calls
    /\ UNCHANGED <<now, cb, ret, consec, fetchVars, captchaVars, coordVars, downloadVars,
                   loaded, dataVars, unloadVars, loginVars, cacheVars, retryVars,
                   meterVars>>

\* clear_session() when exists() or unlink() raises
ClearSessionDiskFails ==
    /\ session_file' = session_file
    /\ saved' = saved
    /\ disk' = "os_error"
    /\ propagated' = session_except("os_error")
    /\ cookie_string' = cookie_string
    /\ op' = "clear_session"
    /\ calls' = 1 - calls
    /\ UNCHANGED <<now, cb, ret, consec, fetchVars, captchaVars, coordVars, downloadVars,
                   loaded, dataVars, unloadVars, loginVars, cacheVars, retryVars,
                   meterVars>>

NextSessionIO ==
    \/ NextSession
    \/ LoadSessionDiskFails
    \/ SaveSessionDiskFails
    \/ ClearSessionDiskFails

SpecSessionIO == InitSession /\ [][NextSessionIO]_vars

\* ------------------------- SpecManual: cookies pasted in by the user

\* the files found when the user pastes cookies in: none, an unreadable one,
\* the record of an earlier login
ManualSessions ==
    {NoRecord("absent"), NoRecord("corrupt"), save_session("jar_a", "ua_a", "null", 0)}

InitManual ==
    /\ InitApi
    /\ InitSnapshot
    /\ InitEntries
    /\ InitCache
    /\ InitRetry
    /\ InitMeters
    /\ InitCoordinator
    /\ InitDownload
    /\ session_file \in ManualSessions
    /\ loaded = NoRecord("none")
    /\ saved = NoRecord("none")
    /\ disk = "ok"
    /\ propagated = "none"
    /\ cookie_string = <<>>

\* save_manual_cookies(cookie_string) with a disk that works
SaveManualCookies ==
    \E raw \in CookieStrings :
       \E r \in save_manual_cookies(session_file, raw, now, TRUE) :
          /\ cookie_string' = raw
          /\ session_file' = r.file
          /\ ret' = r.ret
          /\ saved' = IF r.file = session_file THEN saved ELSE r.file
          /\ disk' = "ok"
          /\ propagated' = "none"
          /\ op' = "save_manual_cookies"
          /\ calls' = 1 - calls
          /\ UNCHANGED <<now, cb, consec, fetchVars, captchaVars, coordVars, downloadVars,
                         loaded, dataVars, unloadVars, loginVars, cacheVars, retryVars,
                         meterVars>>

\* save_manual_cookies(cookie_string) when open() or json.dump() raises
\* inside save_session; the disk is only touched when cookies were parsed
SaveManualCookiesDiskFails ==
    \E raw \in CookieStrings :
       /\ DOMAIN parse_cookie_string(raw, Len(raw)) # {}
       /\ \E r \in save_manual_cookies(session_file, raw, now, FALSE) :
             /\ cookie_string' = raw
             /\ session_file' = r.file
             /\ ret' = r.ret
             /\ saved' = IF r.file = session_file THEN saved ELSE NoRecord("none")
             /\ disk' = "os_error"
             /\ propagated' = session_except("os_error")
             /\ op' = "save_manual_cookies"
             /\ calls' = 1 - calls
             /\ UNCHANGED <<now, cb, consec, fetchVars, captchaVars, coordVars,
                            downloadVars, loaded, dataVars, unloadVars, loginVars,
                            cacheVars, retryVars, meterVars>>

NextManual ==
    \/ ClockTickSession
    \/ LoadSession
    \/ ClearSession
    \/ SaveManualCookies
    \/ SaveManualCookiesDiskFails

SpecManual == InitManual /\ [][NextManual]_vars

\* ------------------------------------------ SpecData: ESBData on one list of rows

\* __csv_to_dict returned any list of at most MaxRows rows
InitData ==
    /\ now = DataStart
    /\ cb = NewCircuitBreaker
    /\ op = "init"
    /\ ret = "none"
    /\ calls = 0
    /\ consec = 0
    /\ pc = [t \in Tasks |-> "idle"]
    /\ req = [t \in Tasks |-> 0]
    /\ outcome = [t \in Tasks |-> "none"]
    /\ gate_day = None
    /\ gate_passes = 0
    /\ gate_cancelled = 0
    /\ raised = [t \in Tasks |-> "none"]
    /\ markers = [t \in Tasks |-> {}]
    /\ req_ua = [t \in Tasks |-> "none"]
    /\ token = [t \in Tasks |-> "none"]
    /\ shape = [t \in Tasks |-> "none"]
    /\ InitCoordinator
    /\ InitDownload
    /\ InitSessionManager
    /\ InitEntries
    /\ InitCache
    /\ InitRetry
    /\ InitMeters
    /\ rows \in CsvData(MaxRows)
    /\ esb = NoData("unbuilt")
    /\ usage = NoUsage

ClockTickData ==
    /\ now < DataStart + MaxTicksData * Tick
    /\ now' = now + Tick
    /\ UNCHANGED <<cb, unitVars, consec, fetchVars, captchaVars, coordVars, downloadVars,
                   sessionVars, dataVars, unloadVars, loginVars, cacheVars, retryVars,
                   meterVars>>

\* ESBData(data=rows)
ConstructESBData ==
    /\ esb' = ESBData(rows, now)
    /\ usage' = NoUsage
    /\ op' = "ESBData"
    /\ calls' = 1 - calls
    /\ UNCHANGED <<now, cb, ret, consec, fetchVars, captchaVars, coordVars, downloadVars,
                   sessionVars, rows, unloadVars, loginVars, cacheVars, retryVars,
                   meterVars>>

\* the sensors read the six properties of the snapshot
ReadUsage ==
    /\ esb.kind = "data"
    /\ usage' = [kind |-> "read",
                 at |-> now,
                 today |-> today(esb.data, now),
                 last_24_hours |-> last_24_hours(esb.data, now),
                 this_week |-> this_week(esb.data, now),
                 last_7_days |-> last_7_days(esb.data, now),
                 this_month |-> this_month(esb.data, now),
                 last_30_days |-> last_30_days(esb.data, now)]
    /\ op' = "usage"
    /\ calls' = 1 - calls
    /\ UNCHANGED <<now, cb, ret, consec, fetchVars, captchaVars, coordVars, downloadVars,
                   sessionVars, rows, esb, unloadVars, loginVars, cacheVars, retryVars,
                   meterVars>>

NextData ==
    \/ ClockTickData
    \/ ConstructESBData
    \/ ReadUsage

SpecData == InitData /\ [][NextData]_vars

\* --------------------------------- SpecUnload: config entries set up and unloaded

\* async_setup_entry for entry e: a new session is created, and stored with
\* the coordinator under the entry's id if the first refresh succeeds
SetupEntry(e) ==
    /\ entry_data[e] = "absent"
    /\ \E refresh \in FirstRefreshes, forward_ok \in BOOLEAN :
          LET r == async_setup_entry(entry_data, session_state, e, refresh, forward_ok) IN
          /\ entry_data' = r.data
          /\ session_state' = r.sessions
          /\ setup' = [entry |-> e, result |-> r.result]
    /\ op' = "async_setup_entry"
    /\ calls' = 1 - calls
    /\ UNCHANGED <<now, cb, ret, consec, fetchVars, captchaVars, coordVars, downloadVars,
                   sessionVars, dataVars, unloaded, loginVars, cacheVars, retryVars,
                   meterVars>>

\* the entry's item is replaced by one without a session
SessionDropped(e) ==
    /\ entry_data[e] = "with_session"
    /\ entry_data' = [entry_data EXCEPT ![e] = "no_session"]
    /\ op' = "drop"
    /\ calls' = 1 - calls
    /\ UNCHANGED <<now, cb, ret, consec, fetchVars, captchaVars, coordVars, downloadVars,
                   sessionVars, dataVars, session_state, unloaded, setup, loginVars,
                   cacheVars, retryVars, meterVars>>

\* the entry's session is closed by someone else
SessionClosed(e) ==
    /\ session_state[e] = "open"
    /\ session_state' = [session_state EXCEPT ![e] = "closed"]
    /\ op' = "close"
    /\ calls' = 1 - calls
    /\ UNCHANGED <<now, cb, ret, consec, fetchVars, captchaVars, coordVars, downloadVars,
                   sessionVars, dataVars, entry_data, unloaded, setup, loginVars, cacheVars,
                   retryVars, meterVars>>

\* async_unload_entry(hass, entry) for entry e
UnloadEntry(e) ==
    \E unload_ok \in BOOLEAN, close_error \in BOOLEAN :
    \E after \in IF close_error THEN {"open", "closed"} ELSE {"closed"} :
        LET r == async_unload_entry(entry_data, session_state, e, unload_ok, close_error,
                                    after) IN
        /\ entry_data' = r.data
        /\ session_state' = r.sessions
        /\ unloaded' = [entry |-> e, unload_ok |-> unload_ok,
                        close_error |-> close_error /\ r.close_called,
                        close_called |-> r.close_called, result |-> r.result]
        /\ op' = "async_unload_entry"
        /\ calls' = 1 - calls
        /\ UNCHANGED <<now, cb, ret, consec, fetchVars, captchaVars, coordVars,
                       downloadVars, sessionVars, dataVars, setup, loginVars, cacheVars,
                       retryVars, meterVars>>

NextUnload ==
    \/ \E e \in Entries : SetupEntry(e)
    \/ \E e \in Entries : SessionDropped(e)
    \/ \E e \in Entries : SessionClosed(e)
    \/ \E e \in Entries : UnloadEntry(e)

SpecUnload == Init /\ [][NextUnload]_vars

\* ------------------------- SpecCache: ESBCachingApi.fetch() called by two tasks

\* the exceptions the underlying fetch() is made to raise
CacheErrors == {"value_error", "client_error"}

ClockTickCache ==
    /\ Advance(MaxTicks)
    /\ UNCHANGED cacheVars

\* fetch() inside the lock, for a cache object c whose lock task t was just
\* given: the underlying fetch() is awaited if the cache is stale, the
\* cached data returned and the lock released otherwise
EnterLock(t, c) ==
    IF cache_stale(c, now)
    THEN /\ fetches < MaxFetches
         /\ cache' = [c EXCEPT !.holder = t]
         /\ ctask' = [ctask EXCEPT ![t] = [pc |-> "fetching", result |-> "pending",
                                           got |-> 0, checked |-> now]]
         /\ fetches' = fetches + 1
    ELSE /\ cache' = c
         /\ ctask' = [ctask EXCEPT ![t] = IdleTask("cached", c.data, now)]
         /\ fetches' = fetches

\* task t calls fetch(): it enters the lock at once, or waits for it
CacheFetchCalled(t) ==
    /\ ctask[t].pc = "idle"
    /\ IF lock_free(cache)
       THEN EnterLock(t, cache)
       ELSE /\ cache' = [cache EXCEPT !.waiters = Append(@, t)]
            /\ ctask' = [ctask EXCEPT ![t] = [pc |-> "waiting", result |-> "pending",
                                              got |-> 0, checked |-> None]]
            /\ fetches' = fetches
    /\ UNCHANGED <<now, cb, unitVars, consec, fetchVars, captchaVars, coordVars,
                   downloadVars, sessionVars, dataVars, unloadVars, loginVars,
                   retryVars, meterVars>>

\* the lock was released and task t, first of the waiters, is resumed
LockGranted(t) ==
    /\ ctask[t].pc = "waiting"
    /\ cache.holder = "none"
    /\ Head(cache.waiters) = t
    /\ EnterLock(t, [cache EXCEPT !.waiters = Tail(@)])
    /\ UNCHANGED <<now, cb, unitVars, consec, fetchVars, captchaVars, coordVars,
                   downloadVars, sessionVars, dataVars, unloadVars, loginVars,
                   retryVars, meterVars>>

\* the underlying fetch() awaited by task t returns an ESBData
UnderlyingReturns(t) ==
    /\ ctask[t].pc = "fetching"
    /\ cache' = [cache EXCEPT !.data = fetches, !.timestamp = now, !.holder = "none"]
    /\ ctask' = [ctask EXCEPT ![t] = IdleTask("fetched", fetches, @.checked)]
    /\ fetches' = fetches
    /\ UNCHANGED <<now, cb, unitVars, consec, fetchVars, captchaVars, coordVars,
                   downloadVars, sessionVars, dataVars, unloadVars, loginVars,
                   retryVars, meterVars>>

\* the underlying fetch() awaited by task t raises
UnderlyingRaises(t) ==
    /\ ctask[t].pc = "fetching"
    /\ \E e \in CacheErrors :
          ctask' = [ctask EXCEPT ![t] = IdleTask(e, 0, @.checked)]
    /\ cache' = [cache EXCEPT !.data = 0, !.timestamp = None, !.holder = "none"]
    /\ fetches' = fetches
    /\ UNCHANGED <<now, cb, unitVars, consec, fetchVars, captchaVars, coordVars,
                   downloadVars, sessionVars, dataVars, unloadVars, loginVars,
                   retryVars, meterVars>>

\* task t is cancelled while it waits for the lock or for the underlying
\* fetch(): CancelledError is no Exception, the cache is left as it is
CacheFetchCancelled(t) ==
    /\ ctask[t].pc \in {"waiting", "fetching"}
    /\ cache' = IF ctask[t].pc = "fetching"
                THEN [cache EXCEPT !.holder = "none"]
                ELSE [cache EXCEPT !.waiters = Without(@, t)]
    /\ ctask' = [ctask EXCEPT ![t] = IdleTask("cancelled", 0, @.checked)]
    /\ fetches' = fetches
    /\ UNCHANGED <<now, cb, unitVars, consec, fetchVars, captchaVars, coordVars,
                   downloadVars, sessionVars, dataVars, unloadVars, loginVars,
                   retryVars, meterVars>>

NextCache ==
    \/ ClockTickCache
    \/ \E t \in Tasks : CacheFetchCalled(t)
    \/ \E t \in Tasks : LockGranted(t)
    \/ \E t \in Tasks : UnderlyingReturns(t)
    \/ \E t \in Tasks : UnderlyingRaises(t)
    \/ \E t \in Tasks : CacheFetchCancelled(t)

SpecCache == Init /\ [][NextCache]_vars

\* ------------------------------ SpecRetry: the retrying fetch() of sensor.py

ClockTickRetry ==
    /\ Advance(MaxTicks)
    /\ UNCHANGED retryVars

\* fetch() is called: the first attempt starts
RetryFetchCalled ==
    /\ retry.pc = "idle"
    /\ retry' = [pc |-> "attempt", attempt |-> 0, attempts |-> 1, slept |-> 0,
                 last_error |-> NoAttempt, result |-> NoAttempt]
    /\ UNCHANGED <<now, cb, unitVars, consec, fetchVars, captchaVars, coordVars,
                   downloadVars, sessionVars, dataVars, unloadVars, loginVars, cacheVars,
                   meterVars>>

\* the attempt in progress ends
AttemptEnds ==
    /\ retry.pc = "attempt"
    /\ \E r \in AttemptResults : retry' = retry_fetch(retry, r)
    /\ UNCHANGED <<now, cb, unitVars, consec, fetchVars, captchaVars, coordVars,
                   downloadVars, sessionVars, dataVars, unloadVars, loginVars, cacheVars,
                   meterVars>>

\* asyncio.sleep(DEFAULT_RETRY_WAIT) is over: the next attempt starts
SleepEnds ==
    /\ retry.pc = "sleep"
    /\ retry' = [retry EXCEPT !.pc = "attempt", !.attempt = @ + 1,
                              !.attempts = @ + 1, !.slept = @ + DEFAULT_RETRY_WAIT]
    /\ UNCHANGED <<now, cb, unitVars, consec, fetchVars, captchaVars, coordVars,
                   downloadVars, sessionVars, dataVars, unloadVars, loginVars, cacheVars,
                   meterVars>>

NextRetry ==
    \/ ClockTickRetry
    \/ RetryFetchCalled
    \/ AttemptEnds
    \/ SleepEnds

SpecRetry == Init /\ [][NextRetry]_vars

\* ---------------------- SpecMeters: two SessionManagers in one directory

\* two managers are constructed; the directory holds any file under each name
InitTwoMeters ==
    /\ InitApi
    /\ InitSnapshot
    /\ InitEntries
    /\ InitCache
    /\ InitRetry
    /\ InitCoordinator
    /\ InitDownload
    /\ InitSessionManager
    /\ files \in [{session_file_name(mprn) : mprn \in Mprns} -> MeterFiles]
    /\ managed = [mprn |-> "none", result |-> NoRecord("none")]

\* load_session() of the manager of meter mprn
ManagerLoads(mprn) ==
    LET r == manager_load(files, mprn, now) IN
    /\ files' = r.files
    /\ managed' = [mprn |-> mprn, result |-> r.result]
    /\ op' = "load_session"
    /\ calls' = 1 - calls
    /\ UNCHANGED <<now, cb, ret, consec, fetchVars, captchaVars, coordVars, downloadVars,
                   sessionVars, dataVars, unloadVars, loginVars, cacheVars, retryVars>>

\* save_session() of the manager of meter mprn
ManagerSaves(mprn) ==
    /\ \E cookies \in CookieJars :
          files' = manager_save(files, mprn, cookies, "ua_a", "null", now)
    /\ managed' = [mprn |-> mprn, result |-> NoRecord("none")]
    /\ op' = "save_session"
    /\ calls' = 1 - calls
    /\ UNCHANGED <<now, cb, ret, consec, fetchVars, captchaVars, coordVars, downloadVars,
                   sessionVars, dataVars, unloadVars, loginVars, cacheVars, retryVars>>

\* clear_session() of the manager of meter mprn
ManagerClears(mprn) ==
    /\ files' = manager_clear(files, mprn)
    /\ managed' = [mprn |-> mprn, result |-> NoRecord("none")]
    /\ op' = "clear_session"
    /\ calls' = 1 - calls
    /\ UNCHANGED <<now, cb, ret, consec, fetchVars, captchaVars, coordVars, downloadVars,
                   sessionVars, dataVars, unloadVars, loginVars, cacheVars, retryVars>>

NextMeters ==
    \/ ClockTickSession
    \/ SessionExpiryPasses
    \/ \E mprn \in Mprns : ManagerLoads(mprn)
    \/ \E mprn \in Mprns : ManagerSaves(mprn)
    \/ \E mprn \in Mprns : ManagerClears(mprn)

SpecMeters == InitTwoMeters /\ [][NextMeters]_vars

\* =================================================================== claims

\* the daily quota is exhausted at time t, once the day's reset has been applied
QuotaExhausted(b, t) == daily_reset(b, t).daily_attempts >= MAX_AUTH_ATTEMPTS_PER_DAY

\* ------------------------------------------------------------ under Spec

\* a step of Spec in which the caller calls fetch(): any step but a clock tick
\* that starts where no call is in progress
FetchCalled == pc[Caller] = "idle" /\ now' = now

\* C1: when can_attempt() returns false, fetch() raises the 'Circuit breaker is
\* open' RuntimeError without issuing a network request, and neither
\* record_success nor record_failure runs: failure_count (with last_failure_time
\* and is_open) is unchanged and daily_attempts is not incremented.
C1_RefusedFetchIsNotCounted ==
    [][(FetchCalled /\ ~can_attempt(cb, now).ok) =>
          /\ outcome'[Caller] = "breaker_open"
          /\ pc'[Caller] = "idle"
          /\ req'[Caller] = 0
          /\ cb'.failure_count = cb.failure_count
          /\ cb'.last_failure_time = cb.last_failure_time
          /\ cb'.is_open = cb.is_open
          /\ cb'.daily_attempts <= cb.daily_attempts
          /\ consec' = consec]_vars

\* C1, witness: a fetch() was refused by an open breaker inside its backoff
\* window although the daily quota was not exhausted
C1_Witness ==
    /\ outcome[Caller] = "breaker_open"
    /\ pc[Caller] = "idle"
    /\ in_backoff(cb, now)
    /\ ~QuotaExhausted(cb, now)

\* C2: of the non-overlapping fetch() calls of one calendar day, each ending in
\* a success or a failure, at most MAX_AUTH_ATTEMPTS_PER_DAY pass the gate,
\* whatever the mix, and once that many have passed every further call of that
\* day is refused by can_attempt().
C2_DailyGate ==
    gate_cancelled = 0 =>
       /\ gate_passes <= MAX_AUTH_ATTEMPTS_PER_DAY
       /\ (/\ pc[Caller] = "idle"
           /\ gate_passes = MAX_AUTH_ATTEMPTS_PER_DAY
           /\ gate_day = Date(now)) => ~can_attempt(cb, now).ok

\* C2, witness: three calls have passed the gate today, they ended in successes
\* and failures, and a fourth call of that day was refused
C2_Witness ==
    /\ gate_cancelled = 0
    /\ gate_passes = MAX_AUTH_ATTEMPTS_PER_DAY
    /\ gate_day = Date(now)
    /\ outcome[Caller] = "breaker_open"
    /\ cb.failure_count = 1

\* C10: after a fetch() that returned a snapshot failure_count = 0 and is_open =
\* false; a fetch failing with a network error while failure_count = 0 leaves
\* failure_count = 1 and the breaker closed.
C10_SuccessResetsBreaker ==
    /\ [](outcome[Caller] = "snapshot" => (cb.failure_count = 0 /\ ~cb.is_open))
    /\ [][(/\ pc[Caller] = "request"
           /\ cb.failure_count = 0
           /\ outcome'[Caller] \in NetworkErrors) =>
             (cb'.failure_count = 1 /\ ~cb'.is_open)]_vars

\* C10, witness: a fetch() returned a snapshot after an earlier one had failed
C10_Witness ==
    /\ outcome[Caller] = "snapshot"
    /\ cb.last_failure_time # None
    /\ cb.failure_count = 0

\* ----------------------------------------------------------- under SpecCB

\* a step of SpecCB, SpecCoord or SpecSession in which method m is called
Called(m) == op' = m /\ calls' # calls

\* C3, the part that holds as stated: after the k-th consecutive
\* record_failure() is_open is false for k < CIRCUIT_BREAKER_FAILURES and true
\* from k = CIRCUIT_BREAKER_FAILURES on, and a can_attempt() made right after
\* the third failure, no time elapsed, returns false.
C3_OpensAtThreshold ==
    /\ Called("record_failure") =>
          (cb'.is_open <=> consec' >= CIRCUIT_BREAKER_FAILURES)
    /\ (/\ Called("can_attempt")
        /\ op = "record_failure"
        /\ consec = CIRCUIT_BREAKER_FAILURES
        /\ now = cb.last_failure_time) => ret' = "false"

\* C3 as stated: ... while a can_attempt() made after two consecutive failures
\* still returns true.
C3_AsStated ==
    [][/\ C3_OpensAtThreshold
       /\ (/\ Called("can_attempt")
           /\ op = "record_failure"
           /\ consec = CIRCUIT_BREAKER_FAILURES - 1) => ret' = "true"]_vars

\* C3 as amended: ... while a can_attempt() made after two consecutive failures
\* still returns true unless the daily quota is exhausted.
C3_Amended ==
    [][/\ C3_OpensAtThreshold
       /\ (/\ Called("can_attempt")
           /\ op = "record_failure"
           /\ consec = CIRCUIT_BREAKER_FAILURES - 1)
              => (ret' = "true" <=> ~QuotaExhausted(cb, now))]_vars

\* C3, witness: can_attempt() was called right after the third consecutive
\* failure and returned false
C3_Witness ==
    /\ op = "can_attempt"
    /\ ret = "false"
    /\ consec = CIRCUIT_BREAKER_FAILURES
    /\ cb.is_open
    /\ cb.last_failure_time = now

\* C4: the wait the claim states for n consecutive failures
C4_Wait(n) ==
    CASE n = 3 -> 7200
      [] n = 4 -> 14400
      [] n = 5 -> 28800
      [] OTHER -> 43200

\* C4 as stated: while the breaker is open with n consecutive failures,
\* can_attempt() returns false exactly while the seconds elapsed since the last
\* failure are less than min(1800 * 2^(n-1), 43200), which is 7200, 14400, 28800
\* and 43200 for n = 3, 4, 5 and n >= 6.
C4_AsStated ==
    [][(Called("can_attempt") /\ cb.is_open) =>
          /\ C4_Wait(cb.failure_count) = Min(1800 * Pow2(cb.failure_count - 1), 43200)
          /\ ret' = "false" <=>
                now - cb.last_failure_time < C4_Wait(cb.failure_count)]_vars

\* C4 as amended: the same for every can_attempt() made while the daily quota
\* is not exhausted; with the quota exhausted can_attempt() returns false
\* whatever the time elapsed.
C4_Amended ==
    [][(Called("can_attempt") /\ cb.is_open) =>
          /\ C4_Wait(cb.failure_count) = Min(1800 * Pow2(cb.failure_count - 1), 43200)
          /\ C4_Wait(cb.failure_count) <= 43200
          /\ ~QuotaExhausted(cb, now) =>
                (ret' = "false" <=>
                    now - cb.last_failure_time < C4_Wait(cb.failure_count))
          /\ QuotaExhausted(cb, now) => ret' = "false"]_vars

\* C4, witness: with six or more consecutive failures can_attempt() returned
\* true exactly 43200 seconds after the last failure
C4_Witness ==
    /\ op = "can_attempt"
    /\ ret = "true"
    /\ cb.failure_count >= 6
    /\ now - cb.last_failure_time = 43200

\* the breaker has granted its half-open attempt and no outcome is recorded yet
HalfOpenGranted ==
    /\ op = "can_attempt"
    /\ ret = "true"
    /\ cb.failure_count >= CIRCUIT_BREAKER_FAILURES

\* C5: once the backoff window has elapsed and the quota is not exhausted,
\* can_attempt() returns true and leaves failure_count alone; failure_count
\* changes only when an outcome is recorded, and until then no second attempt
\* is permitted; a failure re-opens the breaker with the next backoff (doubled,
\* capped), a success returns failure_count to 0.
C5_HalfOpenOneAttempt ==
    [][/\ (/\ Called("can_attempt")
           /\ cb.is_open
           /\ ~in_backoff(cb, now)
           /\ ~QuotaExhausted(cb, now))
              => (ret' = "true" /\ cb'.failure_count = cb.failure_count)
       /\ cb'.failure_count # cb.failure_count
              => (Called("record_success") \/ Called("record_failure"))
       /\ (Called("can_attempt") /\ HalfOpenGranted) => ret' = "false"
       /\ (Called("record_failure") /\ HalfOpenGranted)
              => /\ cb'.is_open
                 /\ backoff_time(cb'.failure_count) =
                       Min(2 * backoff_time(cb.failure_count), CIRCUIT_BREAKER_MAX_TIMEOUT)
       /\ (Called("record_success") /\ HalfOpenGranted)
              => cb'.failure_count = 0]_vars

\* C6: from every state record_success() sets failure_count to 0 and is_open
\* to false, adds exactly 1 to daily_attempts and leaves last_failure_time and
\* the daily reset time unchanged.
C6_RecordSuccess ==
    [][Called("record_success") =>
          /\ cb'.failure_count = 0
          /\ cb'.is_open = FALSE
          /\ cb'.daily_attempts = cb.daily_attempts + 1
          /\ cb'.last_failure_time = cb.last_failure_time
          /\ cb'.daily_attempts_reset_time = cb.daily_attempts_reset_time]_vars

\* C6, witness: record_success() was called on a breaker that had failed
\* before and had already counted an attempt
C6_Witness ==
    /\ op = "record_success"
    /\ cb.last_failure_time # None
    /\ cb.daily_attempts >= 2
    /\ cb.failure_count = 0
    /\ ~cb.is_open

\* C7: record_failure() adds exactly 1 to failure_count and to daily_attempts,
\* stamps last_failure_time with the current time and sets is_open iff the new
\* failure_count is >= CIRCUIT_BREAKER_FAILURES; failure_count always equals
\* the number of record_failure() calls since the last record_success().
C7_RecordFailure ==
    /\ [](cb.failure_count = consec)
    /\ [][Called("record_failure") =>
             /\ cb'.failure_count = cb.failure_count + 1
             /\ cb'.daily_attempts = cb.daily_attempts + 1
             /\ cb'.last_failure_time = now
             /\ cb'.is_open <=> cb'.failure_count >= CIRCUIT_BREAKER_FAILURES]_vars

\* C7, witness: record_failure() was called for the fourth time in a row, later
\* than the failure before it
C7_Witness ==
    /\ op = "record_failure"
    /\ consec = CIRCUIT_BREAKER_FAILURES + 1
    /\ cb.is_open
    /\ cb.last_failure_time = now
    /\ now > 0

\* a can_attempt() at time t is the first of a date later than the last reset's
NewDay(b, t) ==
    /\ b.daily_attempts_reset_time # None
    /\ Date(t) > Date(b.daily_attempts_reset_time)

\* C8, the part that holds as stated: the first can_attempt() of a later date
\* resets the counter and stamps the reset time; can_attempt() calls on the date
\* of the last reset and all record_success/record_failure calls never reset it.
C8_ResetOncePerDay ==
    /\ (Called("can_attempt") /\ NewDay(cb, now)) =>
          /\ cb'.daily_attempts = 0
          /\ cb'.daily_attempts_reset_time = now
          /\ ~NewDay(cb', now)
    /\ (/\ Called("can_attempt")
        /\ cb.daily_attempts_reset_time # None
        /\ ~NewDay(cb, now)) =>
          /\ cb'.daily_attempts = cb.daily_attempts
          /\ cb'.daily_attempts_reset_time = cb.daily_attempts_reset_time
    /\ (Called("record_success") \/ Called("record_failure")) =>
          /\ cb'.daily_attempts = cb.daily_attempts + 1
          /\ cb'.daily_attempts_reset_time = cb.daily_attempts_reset_time

C9_OneFetchInFlight == Cardinality({t \in Tasks : pc[t] # "idle"}) <= 1

\* ------------------------------------------------- under Spec, continued

\* a step of Spec in which the caller's fetch() ends, the gate passed
FetchEnds == pc[Caller] # "idle" /\ pc'[Caller] = "idle"

\* C11: every failure raised inside fetch() after the gate passed (a
\* ValueError, an HTTP 4xx including 429, an HTTP 5xx, any other
\* aiohttp.ClientError, asyncio.TimeoutError or any other Exception) leaves
\* fetch() as that same exception, never swallowed and never turned into a
\* returned value, and is recorded in the breaker as a failure at the time
\* it happened.
C11_FailureReraisedAndRecorded ==
    [][(FetchEnds /\ raised'[Caller] # "none") =>
          /\ outcome'[Caller] = raised'[Caller]
          /\ outcome'[Caller] \in NetworkErrors \cup {"value_error", "other"}
          /\ cb'.failure_count \in {cb.failure_count + 1, 1}
          /\ cb'.last_failure_time = now
          /\ cb'.daily_attempts > cb.daily_attempts
          /\ consec' >= 1]_vars

\* C11, witness: a fetch() ended in an unexpected exception, which was the
\* third failure in a row and opened the breaker
C11_Witness ==
    /\ pc[Caller] = "idle"
    /\ raised[Caller] = "other"
    /\ outcome[Caller] = "other"
    /\ cb.failure_count = CIRCUIT_BREAKER_FAILURES
    /\ cb.is_open
    /\ cb.last_failure_time = now

\* C12: a fetch() that fails with a ValueError (from login-page parsing, from
\* the response-size check or from the CSV-structure validation made when the
\* snapshot is constructed) leaves failure_count exactly one greater than it
\* was before the call, so that three such fetches in a row open the breaker.
C12_ShapeErrorCountsTowardBackoff ==
    [][(FetchEnds /\ raised'[Caller] = "value_error") =>
          /\ cb'.failure_count = cb.failure_count + 1
          /\ cb'.failure_count >= CIRCUIT_BREAKER_FAILURES => cb'.is_open]_vars

\* C13: when the text of the step-3 response holds any CAPTCHA marker, login
\* fails with the CAPTCHA-required kind (CaptchaRequiredException), never
\* with the generic parse/shape kind, and no later request of the flow is
\* issued.
C13_CaptchaErrorKind ==
    [][(/\ pc[Caller] = "request"
        /\ req[Caller] = ConfirmRequest
        /\ markers'[Caller] # {}) =>
          /\ raised'[Caller] = "captcha_required"
          /\ outcome'[Caller] = "captcha_required"
          /\ pc'[Caller] = "idle"
          /\ req'[Caller] = 0]_vars

\* C14: a CAPTCHA met during a scheduled update leads to the coordinator's
\* CAPTCHA path (notification sent, polling reduced to weekly, None returned)
\* and failure_count is not increased by that fetch, so that repeated CAPTCHA
\* responses never open the breaker.
C14_CaptchaNotifiesWithoutBackoff ==
    [][(FetchEnds /\ markers'[Caller] # {}) =>
          /\ coord'.captcha_notification_sent
          /\ coord'.issue
          /\ coord'.update_interval = WeeklyInterval
          /\ coord'.result = "none"
          /\ cb'.failure_count = cb.failure_count
          /\ cb'.is_open = cb.is_open]_vars

\* -------------------------------------------------------- under SpecCoord

\* the results of an update that are an UpdateFailed
UpdateFailedResults ==
    {"update_failed_network", "update_failed_parsing", "update_failed_unexpected"}

C16_SuccessEndsEpisode ==
    [][(/\ Called("update")
        /\ coord.captcha_notification_sent
        /\ fetched'.last \in {"snapshot", "snapshot_empty"}) =>
          /\ ~coord'.captcha_notification_sent
          /\ ~coord'.issue
          /\ coord'.dismissals = coord.dismissals + 1
          /\ coord'.update_interval = DEFAULT_SCAN_INTERVAL]_vars

HeaderTooLarge == response.content_length # None /\ response.content_length > SizeLimit

\* C18: the download step never returns more than MAX_CSV_SIZE_MB (10 MiB):
\* with a Content-Length header over the limit it fails with a ValueError
\* before the body is read; otherwise the UTF-8 length of the body is checked
\* after the download and a body over the limit fails with a ValueError too;
\* a body of exactly the limit is accepted.
C18_DownloadSizeLimit ==
    download.status # "pending" =>
       /\ download.status = "returned" => download.size <= 10 * 1024 * 1024
       /\ HeaderTooLarge => (download.status = "value_error" /\ ~download.body_read)
       /\ ~HeaderTooLarge =>
             /\ download.body_read
             /\ download.status = "value_error" <=> response.body > 10 * 1024 * 1024
             /\ download.status = "returned" => download.size = response.body

\* C18, witness: a body of exactly the limit was returned, the header absent
C18_Witness ==
    /\ download.status = "returned"
    /\ download.size = SizeLimit
    /\ response.body = SizeLimit
    /\ response.content_length = None

\* ------------------------------------------------------ under SpecSession

\* the file holds a record with a non-empty cookie map and the manager's mprn
C19_CookiesAndMprn(f) ==
    /\ f.kind = "record"
    /\ f.cookies \in CookieJars
    /\ f.mprn = OwnMprn

C20_InvalidFileDeleted ==
    [][(/\ Called("load_session")
        /\ session_file.kind # "absent"
        /\ ~(/\ C19_CookiesAndMprn(session_file)
             /\ session_file.expires = "aware"
             /\ session_file.expires_t > now)) =>
          /\ loaded' = NoRecord("none")
          /\ session_file'.kind = "absent"]_vars

\* ---------------------------------------------------- under SpecSessionIO

\* C21: no SessionManager call lets an error out, whether the disk works or
\* fails: a load_session() that meets a disk error returns None and leaves the
\* file; a save_session() or clear_session() that meets one changes nothing
\* the caller holds; a clear_session() that meets one leaves the file; and
\* clear_session() on an absent file leaves it absent, so that clearing what
\* a clear_session() left gives the same file.
C21_DiskErrorsContained ==
    /\ [](propagated = "none")
    /\ [][(Called("load_session") /\ disk' = "os_error") =>
              (loaded' = NoRecord("none") /\ session_file' = session_file)]_vars
    /\ [][(Called("save_session") /\ disk' = "os_error") => loaded' = loaded]_vars
    /\ [][(Called("clear_session") /\ disk' = "os_error") =>
              (loaded' = loaded /\ session_file' = session_file)]_vars
    /\ [][(Called("clear_session") /\ disk' = "ok") =>
              /\ session_file'.kind = "absent"
              /\ session_file.kind = "absent" => session_file' = session_file
              /\ clear_session(session_file') = session_file']_vars

\* C21, witness: clear_session() met a disk error with a session file on disk
\* that an earlier save_session() wrote, and returned
C21_Witness ==
    /\ op = "clear_session"
    /\ disk = "os_error"
    /\ propagated = "none"
    /\ session_file.kind = "record"
    /\ saved = session_file

\* ------------------------------------------------------ under SpecSession

\* C22: a load_session() made while the record of the last save_session() is
\* on disk, that save having been given a non-empty cookie map, and before
\* SESSION_EXPIRY_HOURS have passed since it, returns a record with exactly
\* the cookies, user agent and download token of that save (the last one, not
\* an earlier one), created at the time of the save and expiring
\* SESSION_EXPIRY_HOURS later.
C22_SaveLoadRoundTrip ==
    [][(/\ Called("load_session")
        /\ disk' = "ok"
        /\ saved.kind = "record"
        /\ saved.cookies \in CookieJars
        /\ now < saved.created_t + SESSION_EXPIRY_HOURS * 3600) =>
          /\ loaded'.kind = "record"
          /\ loaded'.cookies = saved.cookies
          /\ loaded'.user_agent = saved.user_agent
          /\ loaded'.download_token = saved.download_token
          /\ loaded'.created_t = saved.created_t
          /\ loaded'.expires = "aware"
          /\ loaded'.expires_t = loaded'.created_t + SESSION_EXPIRY_HOURS * 3600
          /\ loaded'.mprn = OwnMprn]_vars

\* C22, witness: a record was loaded that a save made after the start wrote
\* over the file found at start, with a user agent and a token that file
\* did not have
C22_Witness ==
    /\ op = "load_session"
    /\ loaded.kind = "record"
    /\ loaded = saved
    /\ loaded.created_t = Tick
    /\ now = 2 * Tick
    /\ loaded.user_agent = "ua_b"
    /\ loaded.download_token = "tok_a"
    /\ loaded.cookies = "jar_b"

\* ------------------------------------------------------- under SpecCached

\* C23: when fetch() passes the gate while the session file holds a record
\* that load_session() accepts, none of the login requests 1..7 is issued:
\* the call goes on to the download with the cached token; with no such record
\* the login starts with request 1.
C23_CachedSessionSkipsLogin ==
    [][(pc[Caller] = "idle" /\ pc'[Caller] = "request") =>
          IF load_session(session_file, now).result.kind = "record"
          THEN req'[Caller] = DownloadRequest
          ELSE req'[Caller] = 1]_vars

\* ---------------------------------------------------------- under SpecData

\* the rows of the input whose date and value both parse and whose timestamp
\* is not older than MAX_DATA_AGE_DAYS at time t
ValidRows(data, t) ==
    {i \in 1..Len(data) : /\ data[i].date.kind = "str"
                          /\ data[i].value.kind = "str"
                          /\ data[i].date.x >= t - MAX_DATA_AGE_DAYS * Day}

\* C24: when ESBData is constructed from rows that have both columns, the
\* constructor does not raise and retains exactly the rows whose date and
\* value parse and whose timestamp is not older than now minus
\* MAX_DATA_AGE_DAYS: as many readings as there are such rows, each of them
\* among the readings; every other row is skipped.
C24_RetainedAreTheValidRows ==
    [][(Called("ESBData") /\ (rows # <<>> => validate_csv_structure(rows[1]))) =>
          /\ esb'.kind = "data"
          /\ Len(esb'.data) = Cardinality(ValidRows(rows, now))
          /\ \A i \in ValidRows(rows, now) :
                \E j \in 1..Len(esb'.data) :
                    esb'.data[j] = <<rows[i].date.x, rows[i].value.x>>]_vars

\* the sum of the values of the readings with timestamp at or after since
RECURSIVE SumOver(_, _)
SumOver(data, I) ==
    IF I = {} THEN 0
    ELSE LET i == CHOOSE i \in I : TRUE IN data[i][2] + SumOver(data, I \ {i})

WindowSum(data, since) == SumOver(data, {i \in 1..Len(data) : data[i][1] >= since})

\* the local midnight before t, the midnight that began the Monday before t,
\* and the midnight that began the first day of the month of t
LocalMidnight(t) == t - (t % Day)
MondayMidnight(t) ==
    CHOOSE m \in {LocalMidnight(t) - k * Day : k \in 0..6} :
        ((m \div Day) + EpochWeekday) % 7 = 0
FirstOfMonth(t) ==
    CHOOSE m \in {d * Day : d \in MonthStarts} :
        m <= t /\ \A d \in MonthStarts : d * Day <= t => d * Day <= m

\* C25: each aggregate read from a snapshot is the sum of its retained
\* readings whose timestamp is at or after the start of the aggregate's
\* window at the time of reading: local midnight for today, 24 hours back,
\* Monday's midnight for this_week, 7 days back, the midnight of day 1 for
\* this_month, 30 days back; a snapshot without readings gives 0 for each.
C25_AggregatesAreWindowSums ==
    usage.kind = "read" =>
        /\ usage.today = WindowSum(esb.data, LocalMidnight(usage.at))
        /\ usage.last_24_hours = WindowSum(esb.data, usage.at - Day)
        /\ usage.this_week = WindowSum(esb.data, MondayMidnight(usage.at))
        /\ usage.last_7_days = WindowSum(esb.data, usage.at - 7 * Day)
        /\ usage.this_month = WindowSum(esb.data, FirstOfMonth(usage.at))
        /\ usage.last_30_days = WindowSum(esb.data, usage.at - 30 * Day)
        /\ esb.data = <<>> =>
              /\ usage.today = 0 /\ usage.last_24_hours = 0 /\ usage.this_week = 0
              /\ usage.last_7_days = 0 /\ usage.this_month = 0 /\ usage.last_30_days = 0

\* C25, witness: aggregates read from a snapshot holding a reading made at
\* Monday's midnight and one made exactly 30 days before the reading time:
\* the first counts from this_week on, the second only for last_30_days
C25_Witness ==
    /\ usage.kind = "read"
    /\ usage.at = DataStart
    /\ esb.data = <<<<day_start(DataStart) - weekday(DataStart) * Day, 1>>,
                    <<DataStart - 30 * Day, 2>>>>
    /\ usage.today = 0
    /\ usage.last_24_hours = 0
    /\ usage.this_week = 1
    /\ usage.last_7_days = 1
    /\ usage.this_month = 1
    /\ usage.last_30_days = 3

\* -------------------------------------------------------- under SpecUnload

\* C26: async_unload_entry() returns what the platform unload returned.  When
\* that is true the entry's data is removed, also when closing raised, and
\* the entry's session is closed exactly if the data held a session that was
\* still open (a session already closed is not closed again); when it is
\* false nothing is closed and nothing removed.  The data and sessions of the
\* other entries stay as they were.
C26_UnloadEntry ==
    [][Called("async_unload_entry") =>
          LET u == unloaded'
              e == unloaded'.entry
          IN  /\ u.result = u.unload_ok
              /\ u.unload_ok => entry_data'[e] = "absent"
              /\ ~u.unload_ok =>
                    /\ ~u.close_called
                    /\ entry_data' = entry_data
                    /\ session_state' = session_state
              /\ u.close_called <=>
                    (u.unload_ok /\ entry_data[e] = "with_session"
                     /\ session_state[e] = "open")
              /\ (u.close_called /\ ~u.close_error) => session_state'[e] = "closed"
              /\ ~u.close_called => session_state'[e] = session_state[e]
              /\ \A o \in Entries \ {e} :
                    entry_data'[o] = entry_data[o] /\ session_state'[o] = session_state[o]]_vars

\* C26, witness: an entry was unloaded, closing its session raised, its data
\* is gone, and the other entry still has its data and its open session
C26_Witness ==
    /\ op = "async_unload_entry"
    /\ unloaded.unload_ok
    /\ unloaded.close_called
    /\ unloaded.close_error
    /\ entry_data[unloaded.entry] = "absent"
    /\ \E o \in Entries \ {unloaded.entry} :
          entry_data[o] = "with_session" /\ session_state[o] = "open"

\* ----------------------------------------------------------- under SpecCB

\* C27 as stated: in every reachable state, is_open implies that
\* failure_count >= CIRCUIT_BREAKER_FAILURES and that the time elapsed since
\* last_failure_time is less than the backoff for the current failure_count.
C27_AsStated ==
    cb.is_open =>
        /\ cb.failure_count >= CIRCUIT_BREAKER_FAILURES
        /\ cb.last_failure_time # None
        /\ now - cb.last_failure_time < backoff_time(cb.failure_count)

\* C27 as amended: in every reachable state is_open implies
\* failure_count >= CIRCUIT_BREAKER_FAILURES; is_open stays true when the
\* backoff window passes, until a can_attempt() call made with daily quota
\* left finds the window passed and clears it; right after a can_attempt()
\* call made with daily quota left, is_open implies that the elapsed time is
\* less than the backoff.
C27_Amended ==
    /\ [](cb.is_open =>
            (cb.failure_count >= CIRCUIT_BREAKER_FAILURES /\ cb.last_failure_time # None))
    /\ [][(Called("can_attempt") /\ ~QuotaExhausted(cb, now)) =>
             (cb'.is_open =>
                now - cb'.last_failure_time < backoff_time(cb'.failure_count))]_vars
    /\ [][(cb.is_open /\ ~cb'.is_open) =>
             (Called("record_success")
              \/ (/\ Called("can_attempt")
                  /\ ~QuotaExhausted(cb, now)
                  /\ now - cb.last_failure_time >= backoff_time(cb.failure_count)))]_vars

\* C27, witness: can_attempt() was called after the backoff window had
\* passed, with the daily quota exhausted, and left is_open true
C27_Witness ==
    /\ op = "can_attempt"
    /\ ret = "false"
    /\ cb.is_open
    /\ now - cb.last_failure_time >= backoff_time(cb.failure_count)

\* ------------------------------------------------------------ under Spec

\* C28: the requests of one fetch() are issued in the order 1, 2, ..., 8:
\* request 1 when the call passes the gate, request k + 1 in the step in
\* which request k is answered and accepted, with no exception raised;
\* request 8 only with the non-empty download token that request 7 gave; and
\* a step in which the call fails or is cancelled issues no request and
\* leaves no request of that call to come.
C28_RequestsInOrder ==
    [][/\ req'[Caller] \notin {req[Caller], 0} =>
             \/ /\ pc[Caller] = "idle"
                /\ admitted(cb, now)
                /\ req'[Caller] = 1
             \/ /\ pc[Caller] = "request"
                /\ req'[Caller] = req[Caller] + 1
                /\ req'[Caller] <= DownloadRequest
                /\ outcome'[Caller] = "pending"
                /\ raised'[Caller] = "none"
                /\ shape'[Caller] = "none"
       /\ (req'[Caller] = DownloadRequest /\ pc'[Caller] = "request") =>
             token'[Caller] \notin {"none", ""}
       /\ (pc[Caller] # "idle" /\ outcome'[Caller] # "pending") =>
             (pc'[Caller] = "idle" /\ req'[Caller] = 0 /\ req_ua'[Caller] = "none")
       /\ pc'[Caller] = "idle" => req'[Caller] = 0]_vars

\* C28, witness: request 8 is in flight with the token of request 7, in a
\* call made after an earlier call had failed
C28_Witness ==
    /\ pc[Caller] = "request"
    /\ req[Caller] = DownloadRequest
    /\ token[Caller] = "tok_a"
    /\ cb.failure_count = 1

\* C29: every response that __login cannot parse ends the call with
\* ValueError: whenever the last call failed on the shape of a response
\* (step-1 page without SETTINGS, SETTINGS that is no JSON or no object or
\* lacks csrf or transId, step-3 page without the auto form or with an input
\* or value missing, token response that is no JSON, no object, or has no
\* token), the exception raised inside fetch() was ValueError.
C29_ShapeFailureIsValueError ==
    shape[Caller] # "none" => raised[Caller] = "value_error"

\* C30: every request of a fetch() carries the User-Agent chosen at the
\* start of its __login, the download request 8 included.
C30_OneUserAgentPerFetch ==
    /\ [](pc[Caller] = "request" <=> req_ua[Caller] # "none")
    /\ [](pc[Caller] = "request" => req_ua[Caller] = LoginAgent)

\* C30, witness: the download request is in flight with the User-Agent of
\* the login, in the second call of the day
C30_Witness ==
    /\ pc[Caller] = "request"
    /\ req[Caller] = DownloadRequest
    /\ req_ua[Caller] = LoginAgent
    /\ gate_passes = 2

\* ------------------------------------------------------- under SpecManual

\* C31: save_manual_cookies(raw) returns True exactly when at least one
\* cookie was parsed from raw and the session file now holds the record
\* saved from those cookies; when it returns False the file is as it was;
\* and no exception leaves the call.
C31_ManualCookiesSavedIffTrue ==
    [][Called("save_manual_cookies") =>
          LET cookies == parse_cookie_string(cookie_string', Len(cookie_string')) IN
          /\ ret' = "true" <=>
                /\ DOMAIN cookies # {}
                /\ session_file'.kind = "record"
                /\ session_file'.cookies = cookie_jar(cookies, Len(CookieNames))
                /\ session_file'.created_t = now
          /\ ret' = "false" => session_file' = session_file
          /\ ret' \in {"true", "false"}
          /\ propagated' = "none"]_vars

\* -------------------------------------------------------- under SpecCache

\* C32: ESBCachingApi.fetch() serialises its callers: the underlying fetch()
\* is awaited by at most one task at a time, and by the holder of the lock;
\* a caller that looks at the cache no later than DEFAULT_SCAN_INTERVAL
\* after the last successful underlying fetch returns the data of that
\* fetch and starts no underlying fetch; and when the underlying fetch
\* raises, data and timestamp are cleared and the caller gets the exception.
C32_CachingFetchSerialised ==
    /\ [](\A t \in Tasks : ctask[t].pc = "fetching" <=> cache.holder = t)
    /\ [][\A t \in Tasks :
            (/\ ctask[t].pc \in {"idle", "waiting"}
             /\ ctask'[t].checked = now
             /\ ctask'[t] # ctask[t]
             /\ ctask'[t].result # "cancelled"
             /\ cache.timestamp # None
             /\ now <= cache.timestamp + DEFAULT_SCAN_INTERVAL * 3600)
            => /\ fetches' = fetches
               /\ ctask'[t] = IdleTask("cached", cache.data, now)
               /\ cache.data # 0
               /\ cache'.data = cache.data]_vars
    /\ [][\A t \in Tasks :
            (ctask[t].pc = "fetching" /\ ctask'[t].result \in CacheErrors)
            => /\ cache'.data = 0
               /\ cache'.timestamp = None
               /\ cache'.holder = "none"
               /\ ctask'[t].pc = "idle"]_vars

\* C32, witness: the second task was given, some time later, the data that
\* the only underlying fetch had brought the first one
C32_Witness ==
    /\ ctask["t1"].result = "fetched"
    /\ ctask["t2"] = IdleTask("cached", 1, now)
    /\ fetches = 1
    /\ now = cache.timestamp + DEFAULT_SCAN_INTERVAL * 3600

\* -------------------------------------------------------- under SpecRetry

\* the errors C33 names as retried
C33_Retryable(r) ==
    \/ r.kind \in {"client_error", "timeout"}
    \/ r.kind = "http" /\ (r.status = 429 \/ r.status >= 500)

\* C33: a call of the retrying fetch() makes at most DEFAULT_MAX_RETRIES
\* attempts; an attempt is followed by the wait and another attempt exactly
\* when it failed with HTTP 429, HTTP 5xx, a network error or a timeout and
\* fewer than DEFAULT_MAX_RETRIES attempts were made; otherwise the call
\* ends at once, returning the snapshot or raising the error of its last
\* attempt.
C33_RetryingFetch ==
    /\ [](retry.attempts <= DEFAULT_MAX_RETRIES)
    /\ [][retry.pc = "attempt" /\ retry' # retry =>
            \E r \in AttemptResults :
               /\ retry' \in {retry_fetch(retry, r)}
               /\ retry'.pc = "sleep" <=>
                     (C33_Retryable(r) /\ retry.attempts < DEFAULT_MAX_RETRIES)
               /\ retry'.pc # "sleep" => (retry'.pc = "idle" /\ retry'.result = r)]_vars
    /\ [][retry.pc = "sleep" /\ retry' # retry =>
            /\ retry'.pc = "attempt"
            /\ retry'.attempts = retry.attempts + 1
            /\ retry'.slept = retry.slept + DEFAULT_RETRY_WAIT]_vars

\* ------------------------------------------------- under Spec, continued

\* C34: a fetch() that passed the gate and returned or raised was counted
\* once: its last step raised daily_attempts by exactly one, through
\* record_success() if it returned and through record_failure() if it
\* raised, and a call that raised did not reset failure_count on its way.
C34_CountedExactlyOnce ==
    [][(FetchEnds /\ outcome'[Caller] # "cancelled") =>
          /\ cb'.daily_attempts = cb.daily_attempts + 1
          /\ IF outcome'[Caller] = "snapshot"
             THEN cb' = record_success(cb)
             ELSE cb' = record_failure(cb, now)]_vars

\* ------------------------------------------------ under SpecConc, continued

\* C35: with fetch() calls that overlap the gate still holds: as long as no
\* call of the day was cancelled, at most MAX_AUTH_ATTEMPTS_PER_DAY calls of
\* one calendar day have passed the gate and started a login, and a call
\* passes the gate only while the breaker is not inside its backoff window.
C35_GateHoldsUnderOverlap ==
    /\ [](gate_cancelled = 0 => gate_passes <= MAX_AUTH_ATTEMPTS_PER_DAY)
    /\ [][\A t \in Tasks :
            (pc[t] = "idle" /\ pc'[t] = "request") => ~in_backoff(cb, now)]_vars

\* ------------------------------------------------- under SpecCB, continued

\* the times a later can_attempt() is looked at: up to two days past the
\* last tick of the clock
LaterTimes == {k * Tick : k \in 0 .. MaxTicks + (2 * 86400) \div Tick + 1}

\* time t is past the backoff window of b
WindowPassed(b, t) ==
    b.last_failure_time # None => t - b.last_failure_time >= backoff_time(b.failure_count)

\* C36: the breaker never locks out for good: the backoff window is at most
\* CIRCUIT_BREAKER_MAX_TIMEOUT (12 h); in every reachable state, a
\* can_attempt() made at any later time that is past the backoff window and
\* past the next midnight returns true if nothing was recorded in between;
\* and a can_attempt() made in between never turns such a later true into a
\* false.
C36_NoPermanentLockout ==
    /\ [](backoff_time(cb.failure_count) <= CIRCUIT_BREAKER_MAX_TIMEOUT)
    /\ [](\A t \in LaterTimes :
            (t >= now /\ Date(t) > Date(now) /\ WindowPassed(cb, t))
            => can_attempt(cb, t).ok)
    /\ [][Called("can_attempt") =>
            \A t \in LaterTimes :
               (t >= now /\ can_attempt(cb, t).ok) => can_attempt(cb', t).ok]_vars

\* C36, witness: three failures of the first day had used up its quota and
\* opened the breaker; the can_attempt() of the next day, past the window,
\* returned true
C36_Witness ==
    /\ op = "can_attempt"
    /\ ret = "true"
    /\ cb.failure_count = CIRCUIT_BREAKER_FAILURES
    /\ Date(cb.last_failure_time) = 0
    /\ Date(now) = 1
    /\ cb.daily_attempts = 0
    /\ cb.daily_attempts_reset_time = now

\* ---------------------------------------------- under SpecCoord, continued

\* C37: the update that ends a CAPTCHA episode leaves update_interval at the
\* interval the coordinator was constructed with, whichever interval was
\* configured.
C37_ConfiguredIntervalRestored ==
    [][(/\ Called("update")
        /\ coord.captcha_notification_sent
        /\ ~coord'.captcha_notification_sent) =>
          coord'.update_interval = coord.configured]_vars

\* --------------------------------------------- under SpecUnload, continued

\* C38: when async_setup_entry() ends, however it ends, the session it
\* created is stored under the entry's id in hass.data[DOMAIN] or is closed.
C38_SetupSessionReleased ==
    [][Called("async_setup_entry") =>
          \/ entry_data'[setup'.entry] = "with_session"
          \/ session_state'[setup'.entry] = "closed"]_vars

\* ------------------------------------------------------- under SpecMeters

\* C39: sessions are isolated per meter: a load_session(), save_session()
\* or clear_session() of the manager of one meter leaves the file of the
\* other manager as it was, and a load_session() returns None or the record
\* of the manager's own file, which carries the manager's own meter id.
C39_SessionsIsolatedPerMeter ==
    [][\A mprn \in Mprns : \A other \in Mprns \ {mprn} :
          (/\ managed'.mprn = mprn
           /\ Called("load_session") \/ Called("save_session") \/ Called("clear_session"))
          => /\ files'[session_file_name(other)] = files[session_file_name(other)]
             /\ Called("load_session") =>
                   \/ managed'.result = NoRecord("none")
                   \/ /\ managed'.result = files[session_file_name(mprn)]
                      /\ managed'.result.kind = "record"
                      /\ managed'.result.mprn = mprn]_vars

\* C39, witness: each manager has saved a record of its own, the second one
\* later than the first; the first manager cleared its file and the second
\* manager then loaded its own record
C39_Witness ==
    /\ op = "load_session"
    /\ managed.mprn = OtherMprn
    /\ managed.result.kind = "record"
    /\ managed.result.mprn = OtherMprn
    /\ managed.result.cookies = "jar_b"
    /\ managed.result.created_t = Tick
    /\ files[session_file_name(OwnMprn)] = NoRecord("absent")

\* ------------------------------------------------ under SpecData, continued

\* C40: the aggregates read from one snapshot at one time are nested (the
\* readings of a snapshot are parsed from the values 1 and 2, none is
\* negative): today <= last_24_hours <= last_7_days <= last_30_days,
\* today <= this_week <= last_7_days, and today <= this_month.
C40_AggregatesNested ==
    usage.kind = "read" =>
        /\ \A i \in 1..Len(esb.data) : esb.data[i][2] >= 0
        /\ usage.today <= usage.last_24_hours
        /\ usage.last_24_hours <= usage.last_7_days
        /\ usage.last_7_days <= usage.last_30_days
        /\ usage.today <= usage.this_week
        /\ usage.this_week <= usage.last_7_days
        /\ usage.today <= usage.this_month

\* C40, witness: a snapshot with a reading of this midnight and one made
\* exactly seven days before the time of reading, which counts for
\* last_7_days but not for this_week
C40_Witness ==
    /\ usage.kind = "read"
    /\ usage.at = DataStart
    /\ usage.today = 1
    /\ usage.last_24_hours = 1
    /\ usage.this_week = 1
    /\ usage.last_7_days = 3
    /\ usage.this_month = 3
    /\ usage.last_30_days = 3

====
